---- MODULE Spec2Model ----
(***************************************************************************)
(* Bisimulation decomposition engine of storm                              *)
(* (src/storage/bisimulation/BisimulationDecomposition.cpp).               *)
(*                                                                         *)
(* A decomposition object is constructed from a sparse DTMC and an Options *)
(* value, computeBisimulationDecomposition runs its phases (initial        *)
(* partition, splitter loop, block extraction, quotient), and getQuotient  *)
(* may be called whenever no other member function is running.             *)
(*                                                                         *)
(* Probabilities are kept as exact integers: every row of the transition   *)
(* matrix holds two entries of weight one half, so the probability of a    *)
(* state into a set of states is a number of halves in 0..2.               *)
(***************************************************************************)
EXTENDS Integers, Sequences, FiniteSets, TLC

\* Number of states of the models the decomposition is run on.
NumStates == 4

\* The states of the models the decomposition is checked on exhaustively.
RingStates == 0 .. (NumStates - 1)

VARIABLES
    model,            \* the sparse model handed to the constructor
    formulas,         \* the formulas the Options are built from, if any
    options,          \* the decomposition's own copy of the Options
    callerOptions,    \* the Options object of the caller, passed by reference
    pc,               \* position in the object's life cycle
    error,            \* kind of the exception that ended a member function
    partition,        \* Partition: live blocks by handle, next free handle
    splitterVector,   \* pending splitters of performPartitionRefinement
    initialPartition, \* the partition handed to the refinement loop
    blocks,           \* Decomposition::blocks, filled at extraction
    quotient,         \* the quotient model, or NoQuotient (nullptr)
    lastGetQuotient,  \* outcome of getQuotient, if it was the latest call
    splits,           \* number of blocks split by the running refinement loop
    ssm,              \* a StaticSparseMatrix object: its members and arrays
    lastCall          \* the latest StaticSparseMatrix call and how it ended

vars == << model, formulas, options, callerOptions, pc, error, partition, splitterVector,
           initialPartition, blocks, quotient, lastGetQuotient, splits,
           ssm, lastCall >>

----------------------------------------------------------------------------
(* Helpers on finite sets of integers.                                     *)

Min(S) == CHOOSE x \in S : \A y \in S : x <= y

RECURSIVE SortedSeq(_)
SortedSeq(S) == IF S = {} THEN << >>
                ELSE << Min(S) >> \o SortedSeq(S \ {Min(S)})

\* The elements of a list.
Members(list) == { list[k] : k \in 1 .. Len(list) }

Reverse(list) == [k \in 1 .. Len(list) |-> list[Len(list) + 1 - k]]

----------------------------------------------------------------------------
(* The model: Dtmc<ValueType>.                                             *)

\* The states of the model: 0 .. model.getNumberOfStates() - 1.
States == DOMAIN model.transitions

\* Halves of probability mass that state s places on the set T.
Prob(s, T) == Cardinality({ i \in 1..2 : model.transitions[s][i] \in T })

\* model.getStateLabeling().getLabels()
ModelLabels == DOMAIN model.labeling

\* model.getStates(label)
ModelStates(label) == model.labeling[label]

\* model.hasRewardModel() / model.hasUniqueRewardModel()
HasRewardModel == model.rewardModels >= 1
HasUniqueRewardModel == model.rewardModels = 1

\* model.getUniqueRewardModel()->second.hasOnlyStateRewards()
HasOnlyStateRewards == model.rewardKind = "StateOnly"

----------------------------------------------------------------------------
(* Optional values (boost::optional).                                      *)

Absent == [present |-> FALSE, value |-> {}]
Some(v) == [present |-> TRUE, value |-> v]

----------------------------------------------------------------------------
(* Formulas, as far as the Options read them.  A formula is an optional    *)
(* leading operator (Probability or Reward, with optional optimality type  *)
(* and bound comparison) around a path formula with a left and a right     *)
(* operand; an operand is a conjunction of atomic labels, and is either    *)
(* propositional or not (a nested operator).                               *)

TrueFormula == [propositional |-> TRUE, labels |-> {}]
LabelFormula(l) == [propositional |-> TRUE, labels |-> {l}]

MakeFormula(op, opt, cmp, kind, left, right) ==
    [operator |-> op, optimalityType |-> opt, comparisonType |-> cmp,
     kind |-> kind, left |-> left, right |-> right]

\* FormulaInformation
ContainsRewardOperator(f) == f.operator = "Reward"
ContainsBoundedUntilFormula(f) == f.kind = "BoundedUntil"
ContainsNextFormula(f) == f.kind = "Next"

\* getAtomicLabelFormulas / getAtomicExpressionFormulas, as label names
AtomicPropositions(f) ==
    (IF f.kind \in {"Until", "BoundedUntil"} THEN f.left.labels ELSE {})
        \cup f.right.labels

RECURSIVE StatesWithAll(_, _)
\* SparsePropositionalModelChecker::check on a conjunction of labels
StatesWithAll(m, ls) ==
    IF ls = {} THEN DOMAIN m.transitions
    ELSE LET l == CHOOSE x \in ls : TRUE
         IN  m.labeling[l] \cap StatesWithAll(m, ls \ {l})

----------------------------------------------------------------------------
(* Options.                                                                *)

\* Options::Options()
DefaultOptions ==
    [measureDrivenInitialPartition |-> FALSE,
     phiStates |-> Absent,
     psiStates |-> Absent,
     optimalityType |-> "None",
     respectedAtomicPropositions |-> Absent,
     buildQuotient |-> TRUE,
     keepRewards |-> FALSE,
     type |-> "Strong",
     bounded |-> FALSE]

\* Options::addToRespectedAtomicPropositions
addToRespectedAtomicPropositions(o, labelsToRespect) ==
    [o EXCEPT !.respectedAtomicPropositions =
        IF ~ @.present THEN Some(labelsToRespect)
        ELSE Some(@.value \cup labelsToRespect)]

\* Options that read an upper bound as a minimisation and a lower bound as
\* a maximisation.
OperatorOptimalityType_Inverted(o, f) ==
    IF f.operator \in {"Probability", "Reward"}
    THEN IF f.optimalityType # "None" THEN f.optimalityType
         ELSE IF f.comparisonType # "None"
              THEN IF f.comparisonType \in {"Less", "LessEqual"}
                   THEN "Minimize" ELSE "Maximize"
              ELSE o.optimalityType
    ELSE o.optimalityType

\* The optimality type read off a leading operator (lines 95-119).
OperatorOptimalityType(o, f) ==
    IF f.operator \in {"Probability", "Reward"}
    THEN IF f.optimalityType # "None" THEN f.optimalityType
         ELSE IF f.comparisonType # "None"
              THEN IF f.comparisonType \in {"Less", "LessEqual"}
                   THEN "Maximize" ELSE "Minimize"
              ELSE o.optimalityType
    ELSE o.optimalityType

\* Options that take the phi states from the right subformula and the psi
\* states from the left one.
checkAndSetMeasureDrivenInitialPartition_Swapped(o, m, f) ==
    LET leftSubformula == IF f.kind = "Until" THEN f.left ELSE TrueFormula
    IN  IF f.kind \in {"Until", "Eventually"}
        THEN [o EXCEPT !.measureDrivenInitialPartition = TRUE,
                       !.phiStates = Some(StatesWithAll(m, f.right.labels)),
                       !.psiStates = Some(StatesWithAll(m, leftSubformula.labels))]
        ELSE [o EXCEPT !.optimalityType = "None"]

\* Options that are measure-driven for every Until and Eventually formula,
\* whatever its operands.
checkAndSetMeasureDrivenInitialPartition_AnyOperand(o, m, f) ==
    LET opt == OperatorOptimalityType(o, f)
        leftSubformula == IF f.kind = "Until" THEN f.left ELSE TrueFormula
    IN  IF f.kind \in {"Until", "Eventually"}
        THEN [o EXCEPT !.measureDrivenInitialPartition = TRUE,
                       !.optimalityType = opt,
                       !.phiStates = Some(StatesWithAll(m, leftSubformula.labels)),
                       !.psiStates = Some(StatesWithAll(m, f.right.labels))]
        ELSE [o EXCEPT !.optimalityType = "None"]

\* Options that take every state for a phi state, as if the left
\* subformula were always true.
checkAndSetMeasureDrivenInitialPartition_LeftTrue(o, m, f) ==
    LET opt == OperatorOptimalityType(o, f)
        measure ==
            IF f.kind = "Until"
            THEN IF f.left.propositional /\ f.right.propositional
                 THEN TRUE ELSE o.measureDrivenInitialPartition
            ELSE IF f.kind = "Eventually"
                 THEN IF f.right.propositional
                      THEN TRUE ELSE o.measureDrivenInitialPartition
                 ELSE o.measureDrivenInitialPartition
    IN  IF measure
        THEN [o EXCEPT !.measureDrivenInitialPartition = TRUE,
                       !.optimalityType = opt,
                       !.phiStates = Some(DOMAIN m.transitions),
                       !.psiStates = Some(StatesWithAll(m, f.right.labels))]
        ELSE [o EXCEPT !.optimalityType = "None"]

\* Options::checkAndSetMeasureDrivenInitialPartition
checkAndSetMeasureDrivenInitialPartition(o, m, f) ==
    LET opt == OperatorOptimalityType(o, f)
        leftSubformula == IF f.kind = "Until" THEN f.left ELSE TrueFormula
        measure ==
            IF f.kind = "Until"
            THEN IF f.left.propositional /\ f.right.propositional
                 THEN TRUE ELSE o.measureDrivenInitialPartition
            ELSE IF f.kind = "Eventually"
                 THEN IF f.right.propositional
                      THEN TRUE ELSE o.measureDrivenInitialPartition
                 ELSE o.measureDrivenInitialPartition
    IN  IF measure
        THEN [o EXCEPT !.measureDrivenInitialPartition = TRUE,
                       !.optimalityType = opt,
                       !.phiStates = Some(StatesWithAll(m, leftSubformula.labels)),
                       !.psiStates = Some(StatesWithAll(m, f.right.labels))]
        ELSE [o EXCEPT !.optimalityType = "None"]

\* The ways a call of checkAndSetMeasureDrivenInitialPartition ends on
\* Options of any content.  The flag is only ever set (lines 127, 132), so
\* one that is set on entry stays set whatever the formula.  The checker is
\* then run on both subformulas (lines 137-139) before the phi and psi
\* states are assigned (lines 140-141): rightSubformula is a null pointer
\* below a formula that is neither an Until nor an Eventually, and
\* dereferencing it ends the process or yields any set of states; an
\* operand outside the propositional fragment makes the checker throw.
checkAndSetOutcomes(o, m, f) ==
    LET o1 == [o EXCEPT !.optimalityType = OperatorOptimalityType(o, f)]
        entered == /\ f.kind \in {"Until", "Eventually"}
                   /\ f.right.propositional
                   /\ f.kind = "Until" => f.left.propositional
        ended(after, thrown, crashed) ==
            [options |-> after, thrown |-> thrown, crashed |-> crashed]
    IN  IF entered \/ ~ o.measureDrivenInitialPartition
        THEN { ended(checkAndSetMeasureDrivenInitialPartition(o, m, f),
                     "None", FALSE) }
        ELSE IF f.kind \in {"Until", "Eventually"}
        THEN { ended(o1, "InvalidArgumentException", FALSE) }
        ELSE { ended(o1, "None", TRUE) }
                 \cup { ended([o1 EXCEPT
                                  !.phiStates = Some(DOMAIN m.transitions),
                                  !.psiStates = Some(S)], "None", FALSE) :
                          S \in SUBSET DOMAIN m.transitions }

\* Options that take only a bounded-until for a bounded property.
preserveSingleFormula_ForgetsNext(o, m, f) ==
    LET o1 == [o EXCEPT !.keepRewards = ContainsRewardOperator(f),
                        !.bounded = ContainsBoundedUntilFormula(f)]
        o2 == addToRespectedAtomicPropositions(o1, AtomicPropositions(f))
    IN  checkAndSetMeasureDrivenInitialPartition(o2, m, f)

\* Options::preserveSingleFormula
preserveSingleFormula(o, m, f) ==
    LET o1 == [o EXCEPT !.keepRewards = ContainsRewardOperator(f),
                        !.bounded = ContainsBoundedUntilFormula(f)
                                        \/ ContainsNextFormula(f)]
        o2 == addToRespectedAtomicPropositions(o1, AtomicPropositions(f))
    IN  checkAndSetMeasureDrivenInitialPartition(o2, m, f)

\* Options that take keepRewards and bounded from the latest formula alone.
preserveFormula_Overwrites(o, m, f) ==
    LET o1 == [o EXCEPT !.measureDrivenInitialPartition = FALSE,
                        !.phiStates = Absent,
                        !.psiStates = Absent,
                        !.keepRewards = ContainsRewardOperator(f),
                        !.bounded = ContainsBoundedUntilFormula(f)
                                      \/ ContainsNextFormula(f)]
    IN  addToRespectedAtomicPropositions(o1, AtomicPropositions(f))

\* Options::preserveFormula
preserveFormula(o, m, f) ==
    LET o1 == [o EXCEPT !.measureDrivenInitialPartition = FALSE,
                        !.phiStates = Absent,
                        !.psiStates = Absent,
                        !.keepRewards = @ \/ ContainsRewardOperator(f),
                        !.bounded = @ \/ ContainsBoundedUntilFormula(f)
                                      \/ ContainsNextFormula(f)]
    IN  addToRespectedAtomicPropositions(o1, AtomicPropositions(f))

RECURSIVE preserveAll(_, _, _)
preserveAll(o, m, fs) ==
    IF fs = << >> THEN o
    ELSE preserveAll(preserveFormula(o, m, Head(fs)), m, Tail(fs))

\* Options::Options(model, formula)
OptionsFromFormula(m, f) == preserveSingleFormula(DefaultOptions, m, f)

\* A constructor without the branch for the empty formula list.
OptionsFromFormulas_NoEmptyBranch(m, fs) ==
    IF Len(fs) = 1 THEN preserveSingleFormula(DefaultOptions, m, fs[1])
    ELSE preserveAll(DefaultOptions, m, fs)

\* Options::Options(model, formulas)
OptionsFromFormulas(m, fs) ==
    LET o1 == IF fs = << >>
              THEN [DefaultOptions EXCEPT
                        !.respectedAtomicPropositions = Some(DOMAIN m.labeling),
                        !.keepRewards = TRUE]
              ELSE DefaultOptions
    IN  IF Len(fs) = 1 THEN preserveSingleFormula(o1, m, fs[1])
        ELSE preserveAll(o1, m, fs)

----------------------------------------------------------------------------
(* Partition and Block.  A partition maps the handles of its live blocks   *)
(* to the blocks; a split retires the handle of the block it splits and    *)
(* gives every sub-block a fresh handle.  A block carries its states, the  *)
(* splitter flag, the absorbing flag and its representative state          *)
(* (NoState when it has none).                                             *)

NoState == -1

Block(S, absorbing, representative) ==
    [states |-> S, splitter |-> FALSE, absorbing |-> absorbing,
     representative |-> representative]

\* Handles of the live blocks, in partition order.
Handles(part) == SortedSeq(DOMAIN part.blocks)

\* The partition as a set of state sets.
BlockSets(part) == { part.blocks[h].states : h \in DOMAIN part.blocks }

\* Partition::size()
PartitionSize(part) == Cardinality(DOMAIN part.blocks)

\* Partition(numberOfStates): one block holding every state.
TrivialPartition ==
    [blocks |-> [h \in {0} |-> Block(States, FALSE, NoState)], nextId |-> 1]

RECURSIVE OrderGroups(_)
\* The groups of a split, ordered by their least state.
OrderGroups(G) ==
    IF G = {} THEN << >>
    ELSE LET g == CHOOSE x \in G : \A y \in G : Min(x) <= Min(y)
         IN  << g >> \o OrderGroups(G \ {g})

\* The sub-blocks a block falls into under a key on its states (a function
\* on the states of the block).
Groups(B, key) ==
    { { s \in B.states : key[s] = k } : k \in { key[s] : s \in B.states } }

\* A split that leaves the split block in the partition next to its
\* sub-blocks.
ReplaceBlock_KeepsOld(part, h, gs, mark) ==
    LET old == part.blocks[h]
        fresh == part.nextId .. (part.nextId + Len(gs) - 1)
        sub(x) == gs[x - part.nextId + 1]
    IN  [blocks |-> [x \in DOMAIN part.blocks \cup fresh |->
                        IF x \in fresh
                        THEN [states |-> sub(x),
                              splitter |-> mark,
                              absorbing |-> old.absorbing,
                              representative |->
                                  IF old.representative \in sub(x)
                                  THEN old.representative ELSE NoState]
                        ELSE part.blocks[x]],
         nextId |-> part.nextId + Len(gs)]

\* Replace block h by the sub-blocks gs (at least two), each under a fresh
\* handle.  A sub-block inherits the absorbing flag, and the representative
\* state when it holds it.
ReplaceBlock(part, h, gs, mark) ==
    LET old == part.blocks[h]
        fresh == part.nextId .. (part.nextId + Len(gs) - 1)
        sub(x) == gs[x - part.nextId + 1]
    IN  [blocks |-> [x \in (DOMAIN part.blocks \ {h}) \cup fresh |->
                        IF x \in fresh
                        THEN [states |-> sub(x),
                              splitter |-> mark,
                              absorbing |-> old.absorbing,
                              representative |->
                                  IF old.representative \in sub(x)
                                  THEN old.representative ELSE NoState]
                        ELSE part.blocks[x]],
         nextId |-> part.nextId + Len(gs)]

\* A split that leaves the handle of the split block in the pending vector.
RemoveHandle_Keeps(vec, h) == vec

\* The pending vector without the handle of a block that was split.
RemoveHandle(vec, h) == SelectSeq(vec, LAMBDA x : x # h)

RECURSIVE SplitBlocks(_, _, _, _, _, _)
\* Split every block among the handles hs by its key: keys[h] is the key on
\* the states of block h.  With mark set, the sub-blocks of a split block
\* are flagged as splitters and appended to the pending vector, from which
\* the split block is dropped.  n counts the blocks split.
SplitBlocks(part, vec, n, hs, keys, mark) ==
    IF hs = << >>
    THEN [partition |-> part, splitterVector |-> vec, splits |-> n]
    ELSE LET h == Head(hs)
             gs == OrderGroups(Groups(part.blocks[h], keys[h]))
         IN  IF Len(gs) > 1
             THEN SplitBlocks(
                     ReplaceBlock(part, h, gs, mark),
                     IF mark
                     THEN RemoveHandle(vec, h)
                            \o [i \in 1..Len(gs) |-> part.nextId + i - 1]
                     ELSE vec,
                     n + 1, Tail(hs), keys, mark)
             ELSE SplitBlocks(part, vec, n, Tail(hs), keys, mark)

\* Partition::splitStates(states): split every block into the states inside
\* and outside the given set.
splitStates(part, S) ==
    LET keys == [h \in DOMAIN part.blocks |->
                    [s \in part.blocks[h].states |-> s \in S]]
    IN  SplitBlocks(part, << >>, 0, Handles(part), keys, FALSE).partition

\* Partition::split(less): split every block into classes of states that the
\* strict order does not separate; the order here is on state rewards.
splitByReward(part, reward) ==
    LET keys == [h \in DOMAIN part.blocks |->
                    [s \in part.blocks[h].states |-> reward[s]]]
    IN  SplitBlocks(part, << >>, 0, Handles(part), keys, FALSE).partition

\* Partition(numberOfStates, prob0States, prob1States, representative): the
\* non-empty ones of the block of the first set, the block of the second set
\* (absorbing, with the representative state) and the block of the rest.
MeasureDrivenPartition(first, second, representative) ==
    LET parts == << Block(first, FALSE, NoState),
                    Block(second, TRUE, representative),
                    Block(States \ (first \cup second), FALSE, NoState) >>
        kept == SelectSeq(parts, LAMBDA b : b.states # {})
    IN  [blocks |-> [h \in 0 .. (Len(kept) - 1) |-> kept[h + 1]],
         nextId |-> Len(kept)]

----------------------------------------------------------------------------
(* Qualitative reachability: getStatesWithProbability01.                   *)

RECURSIVE BackwardClosure(_, _)
\* The states that reach the set T with positive probability along states
\* of the set Through.
BackwardClosure(T, Through) ==
    LET more == { s \in Through \ T : Prob(s, T) > 0 }
    IN  IF more = {} THEN T ELSE BackwardClosure(T \cup more, Through)

\* The states with probability 0, and those with probability 1, of reaching
\* a psi state along phi states.
StatesWithProbability0(phi, psi) == States \ BackwardClosure(psi, phi)
StatesWithProbability1(phi, psi) ==
    States \ BackwardClosure(StatesWithProbability0(phi, psi), phi \ psi)

----------------------------------------------------------------------------
(* Signatures.                                                             *)

RECURSIVE Gcd(_, _)
Gcd(a, b) == IF b = 0 THEN a ELSE Gcd(b, a % b)

\* The fraction n/d in lowest terms; 0 when nothing is left to normalise by.
Fraction(n, d) ==
    IF n = 0 \/ d = 0 THEN << 0, 1 >>
    ELSE << n \div Gcd(n, d), d \div Gcd(n, d) >>

\* Strong bisimulation: the probability the state places on the splitter.
StrongSignature(s, B, S) == Prob(s, S)

\* Weak bisimulation: transitions inside the state's own block are silent;
\* the probability placed on another block is taken relative to the
\* probability of leaving the own block.
WeakSignature(s, B, S) ==
    IF S = B.states THEN << 0, 1 >>
    ELSE Fraction(Prob(s, S), 2 - Prob(s, B.states))

Signature(s, B, S) ==
    IF options.type = "Weak" THEN WeakSignature(s, B, S)
    ELSE StrongSignature(s, B, S)

\* Blocks the refinement may split: absorbing blocks are left whole.
possiblyNeedsRefinement(B) == ~ B.absorbing

\* A refinement that splits the blocks without flagging or pushing the
\* sub-blocks.
refinePartitionBasedOnSplitter_NoMark(part, S, vec, n) ==
    LET keys == [h \in DOMAIN part.blocks |->
                    [s \in part.blocks[h].states |->
                        Signature(s, part.blocks[h], S)]]
        hs == SelectSeq(Handles(part),
                        LAMBDA h : possiblyNeedsRefinement(part.blocks[h]))
    IN  SplitBlocks(part, vec, n, hs, keys, FALSE)

\* refinePartitionBasedOnSplitter: split every block that may need it by the
\* signature of its states against the states S of the splitter.
refinePartitionBasedOnSplitter(part, S, vec, n) ==
    LET keys == [h \in DOMAIN part.blocks |->
                    [s \in part.blocks[h].states |->
                        Signature(s, part.blocks[h], S)]]
        hs == SelectSeq(Handles(part),
                        LAMBDA h : possiblyNeedsRefinement(part.blocks[h]))
    IN  SplitBlocks(part, vec, n, hs, keys, TRUE)

----------------------------------------------------------------------------
(* Initial partitions.                                                     *)

\* The labels of the models, in the order a std::set<std::string> iterates
\* them.
AlphabeticalLabels ==
    << "a", "done", "five", "four", "init", "one", "six", "three", "two" >>

\* The labels of the model in that order.
LabelOrder == SelectSeq(AlphabeticalLabels, LAMBDA l : l \in ModelLabels)

\* A label-based partition that splits by the label "init" as by any other.
RECURSIVE splitByLabels_SplitsInit(_, _, _)
splitByLabels_SplitsInit(part, ls, respected) ==
    IF ls = << >> THEN part
    ELSE IF Head(ls) \notin respected
         THEN splitByLabels_SplitsInit(part, Tail(ls), respected)
         ELSE splitByLabels_SplitsInit(splitStates(part, ModelStates(Head(ls))),
                                       Tail(ls), respected)

\* The loop of lines 271-276 over the respected labels.
RECURSIVE splitByLabels(_, _, _)
splitByLabels(part, ls, respected) ==
    IF ls = << >> THEN part
    ELSE IF Head(ls) \notin respected \/ Head(ls) = "init"
         THEN splitByLabels(part, Tail(ls), respected)
         ELSE splitByLabels(splitStates(part, ModelStates(Head(ls))),
                            Tail(ls), respected)

\* splitInitialPartitionBasedOnStateRewards
splitInitialPartitionBasedOnStateRewards(part) ==
    splitByReward(part, model.stateRewards)

\* Initial partitions that are never split by state rewards.
RewardSplitIfKept_Never(part) == part

\* The state-reward split both initial partitions end with.
RewardSplitIfKept(part) ==
    IF options.keepRewards /\ HasRewardModel
    THEN splitInitialPartitionBasedOnStateRewards(part)
    ELSE part

\* A decomposition that skips every label as it skips "init".
initializeLabelBasedPartition_NoLabels == RewardSplitIfKept(TrivialPartition)

\* initializeLabelBasedPartition
initializeLabelBasedPartition ==
    RewardSplitIfKept(
        splitByLabels(TrivialPartition, LabelOrder,
                      options.respectedAtomicPropositions.value))

\* A decomposition that seeds the first block with the phi states.
initializeMeasureDrivenPartition_SeedsPhi ==
    LET phi == options.phiStates.value
        psi == options.psiStates.value
    IN  RewardSplitIfKept(
            MeasureDrivenPartition(phi, psi,
                                   IF psi # {} THEN Min(psi) ELSE NoState))

\* A decomposition whose second block is the probability-1 states whatever
\* the Options say.
initializeMeasureDrivenPartition_AlwaysProbability1 ==
    LET phi == options.phiStates.value
        psi == options.psiStates.value
    IN  RewardSplitIfKept(
            MeasureDrivenPartition(StatesWithProbability0(phi, psi),
                                   StatesWithProbability1(phi, psi),
                                   IF psi # {} THEN Min(psi) ELSE NoState))

\* initializeMeasureDrivenPartition
initializeMeasureDrivenPartition ==
    LET phi == options.phiStates.value
        psi == options.psiStates.value
        representativePsiState == IF psi # {} THEN Min(psi) ELSE NoState
        second == IF options.bounded \/ options.keepRewards
                  THEN psi ELSE StatesWithProbability1(phi, psi)
    IN  RewardSplitIfKept(
            MeasureDrivenPartition(StatesWithProbability0(phi, psi), second,
                                   representativePsiState))

----------------------------------------------------------------------------
(* Extraction and quotient.                                                *)

NoQuotient ==
    [built |-> FALSE, type |-> "None", matrix |-> << >>,
     labeling |-> << >>, rewards |-> << >>]

\* The state a block is represented by in the quotient.
Representative(B) ==
    IF B.representative # NoState THEN B.representative ELSE Min(B.states)

\* The states of a block in the order the partition holds them when the
\* refinement ends.  The refinement reorders the states inside a block; the
\* two extreme orders are tried.
StateOrder(S, descending) ==
    IF descending THEN Reverse(SortedSeq(S)) ELSE SortedSeq(S)

\* Partition::sortBlock: the states of the block in ascending order.
sortBlock(range) == SortedSeq(Members(range))

\* An extraction that stores the block with id i at the mirrored index.
extractDecompositionBlocks_Mirrored(part, descending) ==
    [i \in 1 .. PartitionSize(part) |->
        sortBlock(StateOrder(
            part.blocks[Handles(part)[PartitionSize(part) + 1 - i]].states,
            descending))]

\* An extraction that converts the blocks without sorting them.
extractDecompositionBlocks_Unsorted(part, descending) ==
    [i \in 1 .. PartitionSize(part) |->
        StateOrder(part.blocks[Handles(part)[i]].states, descending)]

\* extractDecompositionBlocks: block ids are the positions of the blocks in
\* the partition; blocks[i + 1] lists the states of the block with id i,
\* sorted before they are converted.
extractDecompositionBlocks(part, descending) ==
    [i \in 1 .. PartitionSize(part) |->
        sortBlock(StateOrder(part.blocks[Handles(part)[i]].states, descending))]

\* One row of the quotient: the halves of probability the block with id
\* i - 1 places on every block.  An absorbing block keeps only a self-loop;
\* under weak bisimulation the silent probability is normalised away.
QuotientRow(part, i) ==
    LET hs == Handles(part)
        B == part.blocks[hs[i]]
        r == Representative(B)
        into(j) == Prob(r, part.blocks[hs[j]].states)
    IN  [j \in 1 .. Len(hs) |->
            IF B.absorbing \/ (options.type = "Weak" /\ into(i) = 2)
            THEN IF j = i THEN 2 ELSE 0
            ELSE IF options.type = "Weak"
                 THEN IF j = i THEN 0 ELSE (2 * into(j)) \div (2 - into(i))
                 ELSE into(j)]

\* buildQuotient: a model of the same kind with one state per block.
buildQuotient(part) ==
    LET hs == Handles(part)
        rep(i) == Representative(part.blocks[hs[i]])
    IN  [built |-> TRUE,
         type |-> model.type,
         matrix |-> [i \in 1 .. Len(hs) |-> QuotientRow(part, i)],
         labeling |-> [l \in ModelLabels |->
                          { i \in 1 .. Len(hs) : rep(i) \in ModelStates(l) }],
         rewards |-> IF options.keepRewards /\ HasRewardModel
                     THEN [i \in 1 .. Len(hs) |-> model.stateRewards[rep(i)]]
                     ELSE << >>]

----------------------------------------------------------------------------
(* The splitter loop of performPartitionRefinement.                        *)

NumberOfStates(part, h) == Cardinality(part.blocks[h].states)

\* A loop that starts with no pending splitter.
AllBlocksAsSplitters_None(part) == << >>

\* A loop that ends with one splitter still pending.
LoopEnds_OneLeft(vec) == Len(vec) <= 1

\* Line 239: the loop ends when no splitter is pending.
LoopEnds(vec) == vec = << >>

\* A loop that starts with only the last block pending.
AllBlocksAsSplitters_LastOnly(part) ==
    << Handles(part)[Len(Handles(part))] >>

\* Lines 233-235: every block is flagged as a splitter and pushed.
AllBlocksAsSplitters(part) == Handles(part)

\* A loop that pushes the blocks without flagging them.
MarkAllSplitters_None(part) == part

\* Line 235, setSplitter() on every block.
MarkAllSplitters(part) ==
    [part EXCEPT !.blocks = [h \in DOMAIN @ |-> [@[h] EXCEPT !.splitter = TRUE]]]

\* A loop that takes any pending block as the splitter.
CanBeBack_Any(part, vec, i) == TRUE

\* Lines 245-246: after sorting by descending size, the back of the vector
\* is a pending block of least size; which one among equals is up to
\* std::sort.
CanBeBack(part, vec, i) ==
    \A j \in 1 .. Len(vec) :
        NumberOfStates(part, vec[i]) <= NumberOfStates(part, vec[j])

\* A loop that forgets every other pending splitter.
WithoutIndex_DropsAll(vec, i) == << >>

\* A loop that selects the splitter and leaves it in the vector.
WithoutIndex_KeepsAll(vec, i) == vec

\* Line 247, pop_back: the vector without its element at position i.
WithoutIndex(vec, i) ==
    [j \in 1 .. (Len(vec) - 1) |-> IF j < i THEN vec[j] ELSE vec[j + 1]]

RECURSIVE SortBySize(_, _)
\* The rest of the vector, largest block first.
SortBySize(part, vec) ==
    IF vec = << >> THEN << >>
    ELSE LET Before(i, j) ==
                 \/ NumberOfStates(part, vec[i]) > NumberOfStates(part, vec[j])
                 \/ /\ NumberOfStates(part, vec[i]) = NumberOfStates(part, vec[j])
                    /\ \/ vec[i] < vec[j]
                       \/ vec[i] = vec[j] /\ i <= j
             i == CHOOSE x \in 1 .. Len(vec) : \A y \in 1 .. Len(vec) : Before(x, y)
         IN  << vec[i] >>
                \o SortBySize(part, SubSeq(vec, 1, i - 1)
                                      \o SubSeq(vec, i + 1, Len(vec)))

----------------------------------------------------------------------------
(* The life cycle of a decomposition object.                               *)

\* Sparse models: a transition matrix, the labels "a" and "init", and the
\* reward models (their number, the state rewards of the first one, and
\* the kind of rewards it holds: "StateOnly", "StateAction", "Transition",
\* or "None" when there is no reward model).
MakeModel(t, A, n, r, kind) ==
    [type |-> "Dtmc", transitions |-> t,
     labeling |-> [a |-> A, init |-> {0}],
     rewardModels |-> n, stateRewards |-> r, rewardKind |-> kind]

\* The rows of the transition matrices: a row holds two entries of value
\* 1/2 (a single successor when both are in the same column).  A state
\* moves to itself or to a neighbour on the ring of the states, or with one
\* half each to itself and its right neighbour, or to its two neighbours.
Left(s) == (s + NumStates - 1) % NumStates
Right(s) == (s + 1) % NumStates

RowKinds == {"left", "stay", "right", "lazyRight", "split"}

Row(s, k) ==
    CASE k = "left" -> << Left(s), Left(s) >>
      [] k = "stay" -> << s, s >>
      [] k = "right" -> << Right(s), Right(s) >>
      [] k = "lazyRight" -> << s, Right(s) >>
      [] k = "split" -> << Left(s), Right(s) >>

TransitionMatrices ==
    { [s \in RingStates |-> Row(s, c[s])] : c \in [RingStates -> RowKinds] }

\* The label sets: the intervals of the ring, up to rotation.
LabelSets == { 0 .. (k - 1) : k \in 0 .. NumStates }

NoRewards == [s \in RingStates |-> 0]

EventuallyA == MakeFormula("None", "None", "None", "Eventually",
                           TrueFormula, LabelFormula("a"))

WithTypes(O) == { [o EXCEPT !.type = t] : o \in O, t \in {"Strong", "Weak"} }

\* Models without rewards; Options built by hand to respect label "a", or
\* built from the formula "eventually a", of either bisimulation type.
PlainModels ==
    { MakeModel(t, A, 0, NoRewards, "None") :
        t \in TransitionMatrices, A \in LabelSets }

PlainOptions(m) ==
    WithTypes({ [DefaultOptions EXCEPT !.respectedAtomicPropositions = Some({"a"})],
                OptionsFromFormula(m, EventuallyA) })

-----------------------------------------------------------------------------
(* StaticSparseMatrix (src/sparse/static_sparse_matrix.h): the object, its  *)
(* arrays and its member functions.                                         *)

MaxRows == 2
MaxEntries == 2

\* The values a caller stores; 0 is what a fresh array cell holds.
Values == {1}

\* A pointer member: nullptr, or an array of n cells with indices 0 .. n-1.
nullptr == [null |-> TRUE, cells |-> << >>]

NewArray(n) == [null |-> FALSE, cells |-> [k \in 1 .. n |-> 0]]

\* What goes wrong when cell i of an array is read or written.
AccessFault(array, i) ==
    IF array.null THEN {"NullPointer"}
    ELSE IF i \in 0 .. (Len(array.cells) - 1) THEN {}
    ELSE {"OutOfBounds"}

RangeFault(array, from, to) == UNION { AccessFault(array, i) : i \in from .. to }

\* array[i] = value; a write outside the array leaves the array as it is.
Store(array, i, value) ==
    IF AccessFault(array, i) = {}
    THEN [array EXCEPT !.cells[i + 1] = value]
    ELSE array

\* for (i = from; i <= to; ++i) array[i] = value
StoreRange(array, from, to, value) ==
    [array EXCEPT !.cells = [k \in DOMAIN @ |->
                                IF (k - 1) \in from .. to THEN value ELSE @[k]]]

\* What a cell read outside an array can hold.
Garbage == Values \cup {0}

\* for (i = from; i <= to; ++i) target[i] = source[i], where the cells read
\* outside the source hold garbage; a write outside the target leaves the
\* target as it is.
CopyRange(target, source, from, to, garbage) ==
    [target EXCEPT !.cells = [k \in DOMAIN @ |->
                                 IF (k - 1) \notin from .. to THEN @[k]
                                 ELSE IF AccessFault(source, k - 1) = {}
                                 THEN source.cells[k]
                                 ELSE garbage]]

\* StaticSparseMatrix(rows), lines 51-55.
StaticSparseMatrix(rows) ==
    [internalStatus    |-> "UnInitialized",
     currentSize       |-> 0,
     lastRow           |-> 0,
     rowCount          |-> rows,
     nonZeroEntryCount |-> 0,
     valueStorage      |-> nullptr,
     diagonalStorage   |-> nullptr,
     columnIndications |-> nullptr,
     rowIndications    |-> nullptr]

\* Lines 437-462.
isInitialized(m) == m.internalStatus \in {"Initialized", "ReadReady"}

isReadReady(m) == m.internalStatus = "ReadReady"

hasError(m) == m.internalStatus = "Error"

\* A setState that leaves the Error status like any other.
setState_LeavesError(m, newState) == [m EXCEPT !.internalStatus = newState]

\* setState, lines 677-679.
setState(m, newState) ==
    [m EXCEPT !.internalStatus = IF @ = "Error" THEN @ ELSE newState]

\* triggerErrorState, lines 668-670.
triggerErrorState(m) == setState(m, "Error")

\* prepareInternalStorage, lines 686-702; new (std::nothrow) yields NULL when
\* the allocation fails.
prepareInternalStorage(m, allocated) ==
    IF allocated
    THEN [m EXCEPT !.valueStorage      = NewArray(m.nonZeroEntryCount),
                   !.columnIndications = NewArray(m.nonZeroEntryCount),
                   !.rowIndications    = NewArray(m.rowCount + 1),
                   !.diagonalStorage   = NewArray(m.rowCount)]
    ELSE [m EXCEPT !.valueStorage      = nullptr,
                   !.columnIndications = nullptr,
                   !.rowIndications    = nullptr,
                   !.diagonalStorage   = nullptr]

\* How a member function ends: the object, the exception thrown, and the
\* faulty memory accesses it made.
Outcome(m, thrown, faults) == [m |-> m, thrown |-> thrown, faults |-> faults]

\* initialize(nonZeroEntries), lines 134-162.
initialize(m, nonZeroEntries, allocated) ==
    IF m.internalStatus # "UnInitialized"
    THEN Outcome(triggerErrorState(m), "invalid_state", {})
    ELSE IF m.rowCount = 0
    THEN Outcome(triggerErrorState(m), "invalid_argument", {})
    ELSE IF (m.rowCount * m.rowCount) - m.rowCount < nonZeroEntries
    THEN Outcome(triggerErrorState(m), "invalid_argument", {})
    ELSE LET sized == [m EXCEPT !.nonZeroEntryCount = nonZeroEntries, !.lastRow = 0]
             stored == prepareInternalStorage(sized, allocated)
         IN  IF ~ allocated
             THEN Outcome(triggerErrorState(stored), "bad_alloc", {})
             ELSE Outcome(setState(stored, "Initialized"), "None", {})

\* addNextValue(row, col, value), lines 267-296.
addNextValue(m, row, col, value) ==
    IF row > m.rowCount \/ col > m.rowCount
    THEN Outcome(triggerErrorState(m), "out_of_range", {})
    ELSE IF row = col
    THEN Outcome([m EXCEPT !.diagonalStorage = Store(@, row, value)], "None",
                 AccessFault(m.diagonalStorage, row))
    ELSE LET switched == row # m.lastRow
             filled == IF switched
                       THEN [m EXCEPT !.rowIndications =
                                          StoreRange(@, m.lastRow + 1, row, m.currentSize),
                                      !.lastRow = row]
                       ELSE m
         IN  Outcome([filled EXCEPT
                         !.valueStorage = Store(@, m.currentSize, value),
                         !.columnIndications = Store(@, m.currentSize, col),
                         !.currentSize = @ + 1],
                     "None",
                     (IF switched
                      THEN RangeFault(m.rowIndications, m.lastRow + 1, row)
                      ELSE {})
                         \cup AccessFault(m.valueStorage, m.currentSize)
                         \cup AccessFault(m.columnIndications, m.currentSize))

\* The calls of addNextValue in lines 207-249, one per entry of the Eigen
\* matrix in row-major order, up to the first one that throws.
RECURSIVE addEntries(_, _)
addEntries(before, entries) ==
    IF entries = << >> \/ before.thrown # "None"
    THEN before
    ELSE LET e == Head(entries)
             next == addNextValue(before.m, e[1], e[2], e[3])
         IN  addEntries(Outcome(next.m, next.thrown, before.faults \cup next.faults),
                        Tail(entries))

\* getEigenSparseMatrixCorrectNonZeroEntryCount: the entries off the diagonal.
getEigenSparseMatrixCorrectNonZeroEntryCount(eigenSparseMatrix) ==
    Len(SelectSeq(eigenSparseMatrix.entries, LAMBDA e : e[1] # e[2]))

\* initialize(eigenSparseMatrix), lines 173-254.
initializeEigen(m, eigenSparseMatrix, allocated) ==
    IF ~ eigenSparseMatrix.compressed
    THEN Outcome(triggerErrorState(m), "invalid_argument", {})
    ELSE LET sized == [m EXCEPT !.nonZeroEntryCount =
                           getEigenSparseMatrixCorrectNonZeroEntryCount(eigenSparseMatrix),
                                !.lastRow = 0]
             stored == prepareInternalStorage(sized, allocated)
         IN  IF ~ allocated
             THEN Outcome(triggerErrorState(stored), "bad_alloc", {})
             ELSE LET added == addEntries(Outcome(stored, "None", {}),
                                          eigenSparseMatrix.entries)
                  IN  IF added.thrown # "None"
                      THEN added
                      ELSE Outcome(setState(added.m, "Initialized"), "None", added.faults)

\* finalize(), lines 302-331.
finalize(m) ==
    IF ~ isInitialized(m)
    THEN Outcome(triggerErrorState(m), "invalid_state", {})
    ELSE IF m.currentSize # m.nonZeroEntryCount
    THEN Outcome(triggerErrorState(m), "invalid_state", {})
    ELSE LET filled == IF m.lastRow # m.rowCount
                       THEN [m EXCEPT !.rowIndications =
                                StoreRange(@, m.lastRow + 1, m.rowCount, m.currentSize)]
                       ELSE m
             sentinel == [filled EXCEPT !.rowIndications =
                             Store(@, m.rowCount + 1, m.nonZeroEntryCount)]
         IN  Outcome(setState(sentinel, "ReadReady"), "None",
                     (IF m.lastRow # m.rowCount
                      THEN RangeFault(m.rowIndications, m.lastRow + 1, m.rowCount)
                      ELSE {})
                         \cup AccessFault(m.rowIndications, m.rowCount + 1))

\* What getValue hands back: whether the element is set, and *target.
Found(value) == << TRUE, value >>

NotFound == << FALSE, 0 >>

\* What a read outside the arrays can make getValue hand back.
Indeterminate == { NotFound } \cup { Found(v) : v \in Garbage }

\* The while loop of getValue, lines 361-375.
RECURSIVE ScanRow(_, _, _, _)
ScanRow(m, rowStart, rowEnd, col) ==
    IF ~ (rowStart < rowEnd)
    THEN [faults |-> {}, returned |-> { NotFound }]
    ELSE IF AccessFault(m.columnIndications, rowStart) # {}
    THEN [faults |-> AccessFault(m.columnIndications, rowStart),
          returned |-> Indeterminate]
    ELSE IF m.columnIndications.cells[rowStart + 1] = col
    THEN [faults |-> AccessFault(m.valueStorage, rowStart),
          returned |-> IF AccessFault(m.valueStorage, rowStart) = {}
                       THEN { Found(m.valueStorage.cells[rowStart + 1]) }
                       ELSE Indeterminate]
    ELSE IF m.columnIndications.cells[rowStart + 1] > col
    THEN [faults |-> {}, returned |-> { NotFound }]
    ELSE ScanRow(m, rowStart + 1, rowEnd, col)

\* getValue(row, col, target), lines 343-381.
getValue(m, row, col) ==
    IF row > m.rowCount \/ col > m.rowCount
    THEN [thrown |-> "out_of_range", faults |-> {}, returned |-> { NotFound }]
    ELSE IF row = col
    THEN [thrown |-> "None",
          faults |-> AccessFault(m.diagonalStorage, row),
          returned |-> IF AccessFault(m.diagonalStorage, row) = {}
                       THEN { Found(m.diagonalStorage.cells[row + 1]) }
                       ELSE Indeterminate]
    ELSE LET bounds == AccessFault(m.rowIndications, row)
                           \cup AccessFault(m.rowIndications, row + 1)
         IN  IF bounds # {}
             THEN [thrown |-> "None", faults |-> bounds, returned |-> Indeterminate]
             ELSE LET scan == ScanRow(m, m.rowIndications.cells[row + 1],
                                      m.rowIndications.cells[row + 2], col)
                  IN  [thrown |-> "None", faults |-> scan.faults,
                       returned |-> scan.returned]

\* toEigenSparseMatrix(), lines 465-535: the status check, and the arrays
\* the loops over row <= rowCount read.
toEigenSparseMatrix(m) ==
    IF ~ isReadReady(m)
    THEN Outcome(triggerErrorState(m), "invalid_state", {})
    ELSE Outcome(m, "None",
                 RangeFault(m.rowIndications, 0, m.rowCount + 1)
                     \cup RangeFault(m.diagonalStorage, 0, m.rowCount))

\* No copy: the copy constructor threw.
NoMatrix == [internalStatus |-> "None"]

\* StaticSparseMatrix(const StaticSparseMatrix&), lines 62-99: the outcome of
\* copying source when the memory read outside its arrays holds garbage.
CopyConstructor(source, allocated, garbage) ==
    LET members == [StaticSparseMatrix(source.rowCount) EXCEPT
                       !.internalStatus = source.internalStatus,
                       !.currentSize = source.currentSize,
                       !.lastRow = source.lastRow,
                       !.nonZeroEntryCount = source.nonZeroEntryCount]
        stored == prepareInternalStorage(members, allocated)
        count == source.nonZeroEntryCount
        rows == source.rowCount
    IN  IF ~ hasError(source)
        THEN Outcome(NoMatrix, "invalid_argument", {})
        ELSE IF ~ allocated
        THEN Outcome(NoMatrix, "bad_alloc", {})
        ELSE Outcome([stored EXCEPT
                         !.valueStorage =
                             CopyRange(@, source.valueStorage, 0, count - 1, garbage),
                         !.diagonalStorage =
                             CopyRange(@, source.diagonalStorage, 0, rows, garbage),
                         !.columnIndications =
                             CopyRange(@, source.columnIndications, 0, count - 1, garbage),
                         !.rowIndications =
                             CopyRange(@, source.rowIndications, 0, rows, garbage)],
                     "None",
                     RangeFault(source.valueStorage, 0, count - 1)
                         \cup RangeFault(source.diagonalStorage, 0, rows)
                         \cup RangeFault(stored.diagonalStorage, 0, rows)
                         \cup RangeFault(source.columnIndications, 0, count - 1)
                         \cup RangeFault(source.rowIndications, 0, rows))

\* The latest call: its name, the exception it threw, the faulty memory
\* accesses it made, what it handed back, and whether the process survived.
Call(op, thrown, faults, returned, copy, crashed) ==
    [op |-> op, thrown |-> thrown, faults |-> faults, returned |-> returned,
     copy |-> copy, crashed |-> crashed]

NoCall == Call("constructor", "None", {}, NotFound, NoMatrix, FALSE)

\* The decompositions use no StaticSparseMatrix.
NoMatrixInUse ==
    /\ ssm = StaticSparseMatrix(0)
    /\ lastCall = NoCall

-----------------------------------------------------------------------------

\* The members of a decomposition before its constructor ran.
InitDecomposition ==
    /\ formulas = << >>
    /\ pc = "new"
    /\ error = "None"
    /\ partition = [blocks |-> << >>, nextId |-> 0]
    /\ splitterVector = << >>
    /\ initialPartition = {}
    /\ blocks = << >>
    /\ quotient = NoQuotient
    /\ lastGetQuotient = "NotCalled"
    /\ splits = 0
    /\ callerOptions = options

InitObject ==
    /\ InitDecomposition
    /\ NoMatrixInUse

Init ==
    /\ model \in PlainModels
    /\ options \in PlainOptions(model)
    /\ InitObject

\* Models with up to two reward models, whose rows stay or move right.
RewardVectors ==
    { [s \in RingStates |-> s % 2], [s \in RingStates |-> IF s = 0 THEN 1 ELSE 0] }

RewardStructures ==
    { << 0, NoRewards, "None" >> }
        \cup { << n, r, k >> : n \in 1 .. 2, r \in RewardVectors,
                               k \in {"StateOnly", "StateAction", "Transition"} }

RewardModels ==
    { MakeModel([s \in RingStates |-> Row(s, c[s])], A, rs[1], rs[2], rs[3]) :
        c \in [RingStates -> {"stay", "right"}], A \in LabelSets,
        rs \in RewardStructures }

\* Formulas over label "a": with or without a reward operator, unbounded
\* or step-bounded.
OptionFormulas ==
    { MakeFormula(op, "None", "None", kind, TrueFormula, LabelFormula("a")) :
        op \in {"None", "Reward"}, kind \in {"Eventually", "BoundedUntil"} }

\* Options built from one formula, or by hand: label-based with any choice
\* of keepRewards and bounded, label-based with the respected atomic
\* propositions left out or empty, or measure-driven with the phi or the
\* psi states missing; of either bisimulation type, with or without a
\* quotient.
AllOptions(m) ==
    LET byHand == { [DefaultOptions EXCEPT
                        !.respectedAtomicPropositions = Some({"a"}),
                        !.keepRewards = k, !.bounded = b] :
                      k \in BOOLEAN, b \in BOOLEAN }
        labels == { [DefaultOptions EXCEPT !.respectedAtomicPropositions = r] :
                      r \in {Absent, Some({})} }
        measure == [DefaultOptions EXCEPT !.measureDrivenInitialPartition = TRUE]
        unset == { measure,
                   [measure EXCEPT !.phiStates = Some(DOMAIN m.transitions)],
                   [measure EXCEPT !.psiStates = Some(m.labeling["a"])] }
        base == { OptionsFromFormula(m, f) : f \in OptionFormulas }
                    \cup byHand \cup labels \cup unset
    IN  { [o EXCEPT !.buildQuotient = q] : o \in WithTypes(base), q \in BOOLEAN }

InitOptions ==
    /\ model \in RewardModels
    /\ options \in AllOptions(model)
    /\ InitObject

\* A constructor that accepts weak bisimulation with bounded properties.
ConstructorRejects_IgnoresType ==
    \/ ~ (~ options.keepRewards \/ ~ HasRewardModel \/ HasUniqueRewardModel)
    \/ ~ (~ options.keepRewards \/ ~ HasRewardModel \/ HasOnlyStateRewards)

\* The conditions the constructor throws on (lines 170-172).
ConstructorRejects ==
    \/ ~ (~ options.keepRewards \/ ~ HasRewardModel \/ HasUniqueRewardModel)
    \/ ~ (~ options.keepRewards \/ ~ HasRewardModel \/ HasOnlyStateRewards)
    \/ ~ (options.type # "Weak" \/ ~ options.bounded)

\* The exception thrown at lines 170-172.
ConstructorException == "IllegalFunctionCallException"

\* A constructor that leaves the respected atomic propositions as given.
FixRespectedAtomicPropositions_Keeps(o) == o

\* Lines 175-177: the respected atomic propositions default to the labels
\* of the model.
FixRespectedAtomicPropositions(o) ==
    IF ~ o.respectedAtomicPropositions.present
    THEN [o EXCEPT !.respectedAtomicPropositions = Some(ModelLabels)]
    ELSE o

\* A constructor that defaults the respected atomic propositions in the
\* Options object of the caller as well.
OptionsArgument_Fixed(o) == FixRespectedAtomicPropositions(o)

\* The Options argument after the constructor: it is taken by reference to
\* const and copied into the member options (line 169), and lines 175-177
\* write to the member only.
OptionsArgument(o) == o

\* BisimulationDecomposition(model, backwardTransitions, options)
Construct ==
    /\ pc = "new"
    /\ IF ConstructorRejects
       THEN /\ pc' = "rejected"
            /\ error' = ConstructorException
            /\ UNCHANGED << options, callerOptions >>
       ELSE /\ pc' = "constructed"
            /\ options' = FixRespectedAtomicPropositions(options)
            /\ callerOptions' = OptionsArgument(callerOptions)
            /\ UNCHANGED error
    /\ UNCHANGED << ssm, lastCall, model, formulas, partition, splitterVector, initialPartition,
                    blocks, quotient, lastGetQuotient, splits >>

\* A decomposition that builds the measure-driven partition whatever the
\* Options say.
InitialPartition_MeasureDriven == initializeMeasureDrivenPartition

\* Lines 186-192: the initial partition the Options select.
InitialPartition ==
    IF options.measureDrivenInitialPartition
    THEN initializeMeasureDrivenPartition
    ELSE initializeLabelBasedPartition

\* A decomposition that checks for the phi states only.
MissingPhiOrPsiStates_PhiOnly ==
    options.measureDrivenInitialPartition /\ ~ options.phiStates.present

\* Lines 186-188: the measure-driven partition is requested and the phi or
\* the psi states are not set.
MissingPhiOrPsiStates ==
    /\ options.measureDrivenInitialPartition
    /\ ~ options.phiStates.present \/ ~ options.psiStates.present

\* The exception thrown at lines 187-188.
InitialPartitionException == "InvalidOptionException"

\* computeBisimulationDecomposition, lines 186-192: the initial partition.
InitializePartition ==
    /\ pc = "constructed"
    /\ IF MissingPhiOrPsiStates
       THEN /\ pc' = "failed"
            /\ error' = InitialPartitionException
            /\ UNCHANGED << partition, initialPartition >>
       ELSE /\ pc' = "partitioned"
            /\ partition' = InitialPartition
            /\ initialPartition' = BlockSets(partition')
            /\ UNCHANGED error
    /\ lastGetQuotient' = "NotCalled"
    /\ UNCHANGED << ssm, lastCall, callerOptions, model, formulas, options, splitterVector, blocks, quotient, splits >>

\* performPartitionRefinement, lines 233-235.
BeginRefinement ==
    /\ pc = "partitioned"
    /\ partition' = MarkAllSplitters(partition)
    /\ splitterVector' = AllBlocksAsSplitters(partition)
    /\ splits' = 0
    /\ pc' = "refining"
    /\ UNCHANGED << ssm, lastCall, callerOptions, model, formulas, options, error, initialPartition, blocks, quotient,
                    lastGetQuotient >>

\* A refinement against the first state of the splitter alone.
SplitterStates_FirstState(part, splitter) ==
    { Min(part.blocks[splitter].states) }

\* Line 251: the block the partition is refined against.
SplitterStates(part, splitter) == part.blocks[splitter].states

\* The body of the while loop, lines 245-251, with the pending block at
\* position i of the vector ending up at its back: the partition, the
\* pending vector and the split count it leaves.
LoopBody(part, vec, i, n) ==
    LET splitter == vec[i]
        rest == SortBySize(part, WithoutIndex(vec, i))
        cleared == [part EXCEPT !.blocks[splitter].splitter = FALSE]
    IN  refinePartitionBasedOnSplitter(
            cleared, SplitterStates(part, splitter), rest, n)

RefineWith(i) ==
    LET refined == LoopBody(partition, splitterVector, i, splits)
    IN  /\ partition' = refined.partition
        /\ splitterVector' = refined.splitterVector
        /\ splits' = refined.splits

\* One iteration of the while loop, lines 239-252.
RefineIteration ==
    /\ pc \in {"refining", "rerefining"}
    /\ ~ LoopEnds(splitterVector)
    /\ \E i \in 1 .. Len(splitterVector) :
          /\ CanBeBack(partition, splitterVector, i)
          /\ RefineWith(i)
    /\ UNCHANGED << ssm, lastCall, callerOptions, model, formulas, options, pc, error, initialPartition, blocks,
                    quotient, lastGetQuotient >>

\* The loop has ended; extractDecompositionBlocks, line 202.
ExtractBlocks ==
    /\ pc = "refining"
    /\ LoopEnds(splitterVector)
    /\ \E descending \in BOOLEAN :
          blocks' = extractDecompositionBlocks(partition, descending)
    /\ pc' = "extracted"
    /\ UNCHANGED << ssm, lastCall, callerOptions, model, formulas, options, error, partition, splitterVector,
                    initialPartition, quotient, lastGetQuotient, splits >>

\* A decomposition that builds the quotient whatever the Options say.
BuildQuotient_Always ==
    /\ pc = "extracted"
    /\ quotient' = buildQuotient(partition)
    /\ pc' = "done"
    /\ UNCHANGED << ssm, lastCall, callerOptions, model, formulas, options, error, partition, splitterVector,
                    initialPartition, blocks, lastGetQuotient, splits >>

\* Lines 206-208, and the return of computeBisimulationDecomposition.
BuildQuotient ==
    /\ pc = "extracted"
    /\ quotient' = IF options.buildQuotient THEN buildQuotient(partition)
                   ELSE quotient
    /\ pc' = "done"
    /\ UNCHANGED << ssm, lastCall, callerOptions, model, formulas, options, error, partition, splitterVector,
                    initialPartition, blocks, lastGetQuotient, splits >>

\* A getQuotient that hands out the pointer unchecked.
getQuotient_Unchecked == "Returned"

\* The exception thrown at line 257.
GetQuotientException == "IllegalFunctionCallException"

\* getQuotient: the quotient, or the exception thrown when it is nullptr.
getQuotient ==
    IF quotient.built THEN "Returned" ELSE GetQuotientException

\* A call of getQuotient while no other member function runs.
GetQuotient ==
    /\ pc \in {"constructed", "failed", "done"}
    /\ lastGetQuotient' = getQuotient
    /\ UNCHANGED << ssm, lastCall, callerOptions, model, formulas, options, pc, error, partition, splitterVector,
                    initialPartition, blocks, quotient, splits >>

Next ==
    \/ Construct
    \/ InitializePartition
    \/ BeginRefinement
    \/ RefineIteration
    \/ ExtractBlocks
    \/ BuildQuotient
    \/ GetQuotient

Spec == Init /\ [][Next]_vars

\* The same object over models with rewards and every kind of Options.
SpecOptions == InitOptions /\ [][Next]_vars

\* The operands of path formulas: true, a label, or a nested probability
\* operator over a label (not propositional).
Operands ==
    { TrueFormula, LabelFormula("a"), LabelFormula("init"),
      [propositional |-> FALSE, labels |-> {"a"}] }

\* The leading operators: none, or a probability or reward operator with or
\* without an optimality type and a bound.
LeadingOperators ==
    { << "None", "None", "None" >> }
        \cup { << op, opt, cmp >> :
                 op \in {"Probability", "Reward"},
                 opt \in {"None", "Minimize", "Maximize"},
                 cmp \in {"None", "Less", "LessEqual", "Greater", "GreaterEqual"} }

\* The path formulas: unary ones over one operand, binary ones over two.
PathFormulas ==
    { << kind, TrueFormula, right >> :
        kind \in {"Eventually", "Next", "Globally"}, right \in Operands }
        \cup { << kind, left, right >> :
                 kind \in {"Until", "BoundedUntil"},
                 left \in Operands, right \in Operands }

SingleFormulas ==
    { MakeFormula(l[1], l[2], l[3], q[1], q[2], q[3]) :
        l \in LeadingOperators, q \in PathFormulas }

\* The formulas that formula lists are drawn from.
ListFormulas ==
    { MakeFormula(op, "None", "None", kind, TrueFormula, LabelFormula(l)) :
        op \in {"None", "Reward"},
        kind \in {"Eventually", "Until", "BoundedUntil"},
        l \in {"a", "init"} }

\* Formula lists: empty, of one formula, of two, and of three formulas over
\* label "a".
FormulaLists ==
    LET short == { f \in ListFormulas :
                     f.right = LabelFormula("a") /\ f.kind # "Until" }
    IN  { << >> }
            \cup { << f >> : f \in SingleFormulas }
            \cup { << f, g >> : f \in ListFormulas, g \in ListFormulas }
            \cup { << f, g, h >> : f \in short, g \in short, h \in short }

\* Models without rewards whose states all move alike.
UniformModels ==
    { MakeModel([s \in RingStates |-> Row(s, k)], A, 0, NoRewards, "None") :
        k \in {"right", "lazyRight"}, A \in LabelSets }

\* An object whose Options are still to be built from a formula list.
InitConfigure ==
    /\ model \in UniformModels
    /\ formulas \in FormulaLists
    /\ options = DefaultOptions
    /\ pc = "unconfigured"
    /\ error = "None"
    /\ partition = [blocks |-> << >>, nextId |-> 0]
    /\ splitterVector = << >>
    /\ initialPartition = {}
    /\ blocks = << >>
    /\ quotient = NoQuotient
    /\ lastGetQuotient = "NotCalled"
    /\ splits = 0
    /\ callerOptions = options
    /\ NoMatrixInUse

\* Options(model, formulas), or Options(model, formula) for one formula.
Configure ==
    /\ pc = "unconfigured"
    /\ \E asList \in BOOLEAN :
          options' = IF asList \/ Len(formulas) # 1
                     THEN OptionsFromFormulas(model, formulas)
                     ELSE OptionsFromFormula(model, formulas[1])
    /\ callerOptions' = options'
    /\ pc' = "new"
    /\ UNCHANGED << ssm, lastCall, model, formulas, error, partition, splitterVector,
                    initialPartition, blocks, quotient, lastGetQuotient, splits >>

\* Models without rewards whose states never move left.
LoopModels ==
    { MakeModel([s \in RingStates |-> Row(s, c[s])], A, 0, NoRewards, "None") :
        c \in [RingStates -> RowKinds \ {"left"}], A \in LabelSets }

InitLoop ==
    /\ model \in LoopModels
    /\ options \in PlainOptions(model)
    /\ InitObject

\* The Options are built from formulas, then the object is used.
NextConfigure == Configure \/ Next

\* Models without rewards whose states stay, move right, or move to either
\* neighbour.
MeasureModels ==
    { MakeModel([s \in RingStates |-> Row(s, c[s])], A, 0, NoRewards, "None") :
        c \in [RingStates -> {"stay", "right", "split"}], A \in LabelSets }

\* Until and Eventually formulas over the labels, bare or below a
\* probability or a reward operator.
MeasureFormulas ==
    { MakeFormula(op, "None", "None", q[1], q[2], q[3]) :
        op \in {"None", "Probability", "Reward"},
        q \in { << "Eventually", TrueFormula, LabelFormula("a") >>,
                << "Eventually", TrueFormula, LabelFormula("init") >>,
                << "Until", TrueFormula, LabelFormula("a") >>,
                << "Until", LabelFormula("a"), LabelFormula("init") >>,
                << "Until", LabelFormula("init"), LabelFormula("a") >> } }

\* An object whose Options are still to be built from one such formula.
InitMeasure ==
    /\ model \in MeasureModels
    /\ formulas \in { << f >> : f \in MeasureFormulas }
    /\ options = DefaultOptions
    /\ pc = "unconfigured"
    /\ error = "None"
    /\ partition = [blocks |-> << >>, nextId |-> 0]
    /\ splitterVector = << >>
    /\ initialPartition = {}
    /\ blocks = << >>
    /\ quotient = NoQuotient
    /\ lastGetQuotient = "NotCalled"
    /\ splits = 0
    /\ callerOptions = options
    /\ NoMatrixInUse

SpecMeasure == InitMeasure /\ [][NextConfigure]_vars

\* The die model of the test (examples/dtmc/die): a fair coin is thrown
\* until one of six outcomes is reached.  13 states, 20 transitions.
DieTransitions ==
    << << 1, 2 >>, << 3, 4 >>, << 5, 6 >>, << 1, 7 >>, << 8, 9 >>,
       << 10, 11 >>, << 2, 12 >>, << 7, 7 >>, << 8, 8 >>, << 9, 9 >>,
       << 10, 10 >>, << 11, 11 >>, << 12, 12 >> >>

DieModel ==
    [type |-> "Dtmc",
     transitions |-> [s \in 0 .. 12 |-> DieTransitions[s + 1]],
     labeling |-> [init |-> {0}, one |-> {7}, two |-> {8}, three |-> {9},
                   four |-> {10}, five |-> {11}, six |-> {12},
                   done |-> 7 .. 12],
     rewardModels |-> 0, stateRewards |-> [s \in 0 .. 12 |-> 0],
     rewardKind |-> "None"]

\* The Options of the test: the defaults, the defaults restricted to the
\* label "one", and the Options built from the formula "eventually one";
\* of either bisimulation type, with or without a quotient.
DieOptions ==
    LET eventuallyOne == MakeFormula("None", "None", "None", "Eventually",
                                     TrueFormula, LabelFormula("one"))
        base == { DefaultOptions,
                  [DefaultOptions EXCEPT
                      !.respectedAtomicPropositions = Some({"one"})],
                  OptionsFromFormula(DieModel, eventuallyOne) }
    IN  { [o EXCEPT !.buildQuotient = q] : o \in WithTypes(base), q \in BOOLEAN }

InitDie ==
    /\ model = DieModel
    /\ options \in DieOptions
    /\ InitObject

\* One iteration of the while loop, lines 239-252, with the sort of line
\* 245 leaving the first of the smallest pending blocks at the back.
RefineSmallestFirst ==
    /\ pc = "refining"
    /\ ~ LoopEnds(splitterVector)
    /\ RefineWith(Min({ j \in 1 .. Len(splitterVector) :
                            CanBeBack(partition, splitterVector, j) }))
    /\ UNCHANGED << ssm, lastCall, callerOptions, model, formulas, options, pc, error, initialPartition, blocks,
                    quotient, lastGetQuotient >>

NextDie ==
    \/ Construct
    \/ InitializePartition
    \/ BeginRefinement
    \/ RefineSmallestFirst
    \/ ExtractBlocks
    \/ BuildQuotient
    \/ GetQuotient

SpecDie == InitDie /\ [][NextDie]_vars

SpecConfigure == InitConfigure /\ [][NextConfigure]_vars

\* performPartitionRefinement run once more on the partition that a
\* completed decomposition has left: lines 233-235 of the second run.
BeginReRefinement ==
    /\ pc = "done"
    /\ partition' = MarkAllSplitters(partition)
    /\ splitterVector' = AllBlocksAsSplitters(partition)
    /\ initialPartition' = BlockSets(partition)
    /\ splits' = 0
    /\ lastGetQuotient' = "NotCalled"
    /\ pc' = "rerefining"
    /\ UNCHANGED << ssm, lastCall, callerOptions, model, formulas, options, error, blocks, quotient >>

NextReRefinement == Next \/ BeginReRefinement

SpecReRefinement == InitLoop /\ [][NextReRefinement]_vars

\* The while loop with the splitter selected freely among the pending ones,
\* in place of the sort of line 245.
RefineAnyOrder ==
    /\ pc = "refining"
    /\ ~ LoopEnds(splitterVector)
    /\ \E i \in 1 .. Len(splitterVector) : RefineWith(i)
    /\ UNCHANGED << ssm, lastCall, callerOptions, model, formulas, options, pc, error, initialPartition, blocks,
                    quotient, lastGetQuotient >>

NextAnyOrder ==
    \/ Construct
    \/ InitializePartition
    \/ BeginRefinement
    \/ RefineAnyOrder
    \/ ExtractBlocks

SpecAnyOrder == InitLoop /\ [][NextAnyOrder]_vars

-----------------------------------------------------------------------------
(* checkAndSetMeasureDrivenInitialPartition on Options of any content.      *)

\* The formulas that may have been preserved before the call.
EarlierFormulas ==
    { MakeFormula("Probability", opt, "None", q[1], q[2], q[3]) :
        opt \in {"None", "Maximize"},
        q \in { << "Eventually", TrueFormula, LabelFormula("a") >>,
                << "Until", LabelFormula("a"), LabelFormula("init") >>,
                << "Next", TrueFormula, LabelFormula("a") >> } }

\* The contents of the Options on entry: fresh (line 46), left by
\* preserveSingleFormula on an earlier formula, or with the flag set and
\* the phi and psi states absent, present or mixed through the members.
EntryOptions(m) ==
    { DefaultOptions }
        \cup { preserveSingleFormula(DefaultOptions, m, g) :
                 g \in EarlierFormulas }
        \cup { [DefaultOptions EXCEPT !.measureDrivenInitialPartition = TRUE,
                                      !.phiStates = phi, !.psiStates = psi] :
                 phi \in { Absent, Some(DOMAIN m.transitions) },
                 psi \in { Absent, Some({}) } }

\* Options of any of these contents, and the formula of the call.
InitEntry ==
    /\ model \in UniformModels
    /\ formulas \in { << f >> : f \in SingleFormulas }
    /\ options \in EntryOptions(model)
    /\ pc = "entry"
    /\ error = "None"
    /\ partition = [blocks |-> << >>, nextId |-> 0]
    /\ splitterVector = << >>
    /\ initialPartition = {}
    /\ blocks = << >>
    /\ quotient = NoQuotient
    /\ lastGetQuotient = "NotCalled"
    /\ splits = 0
    /\ callerOptions = options
    /\ NoMatrixInUse

\* options.checkAndSetMeasureDrivenInitialPartition(model, formula)
CheckAndSetMeasureDrivenInitialPartition ==
    /\ pc = "entry"
    /\ \E out \in checkAndSetOutcomes(options, model, formulas[1]) :
          /\ options' = out.options
          /\ callerOptions' = out.options
          /\ error' = out.thrown
          /\ pc' = IF out.crashed THEN "crashed" ELSE "exit"
    /\ UNCHANGED << ssm, lastCall, model, formulas, partition, splitterVector,
                    initialPartition, blocks, quotient, lastGetQuotient, splits >>

SpecEntry == InitEntry /\ [][CheckAndSetMeasureDrivenInitialPartition]_vars

-----------------------------------------------------------------------------
(* A StaticSparseMatrix object under any sequence of member function calls. *)

\* The Eigen matrices handed to initialize: compressed or not, with their
\* entries << row, col, value >> in row-major order.
EigenMatrices ==
    { [compressed |-> c, entries |-> es] :
        c \in BOOLEAN,
        es \in { << >>,
                 << << 0, 0, 1 >> >>,
                 << << 0, 1, 1 >> >>,
                 << << 0, 1, 1 >>, << 1, 0, 1 >> >> } }

\* The rows and columns a caller passes: those of the matrix, the row count
\* itself, and one past it.
Indices == 0 .. (ssm.rowCount + 1)

decomposition == << model, formulas, options, callerOptions, pc, error, partition, splitterVector,
                    initialPartition, blocks, quotient, lastGetQuotient, splits >>

InitMatrix ==
    /\ model = DieModel
    /\ options = DefaultOptions
    /\ InitDecomposition
    /\ ssm \in { StaticSparseMatrix(rows) : rows \in 0 .. MaxRows }
    /\ lastCall = NoCall

\* A call that reads or writes outside an array, or through nullptr, has
\* undefined behaviour: the process is killed, or it runs on with the write
\* lost and the cell read holding any value.
Crashes(faults) == IF faults = {} THEN { FALSE } ELSE BOOLEAN

Alive == ~ lastCall.crashed

\* A member function that changes the object ends with outcome out.
Ends(op, out) ==
    /\ ssm' = out.m
    /\ \E crashed \in Crashes(out.faults) :
           lastCall' = Call(op, out.thrown, out.faults, NotFound, NoMatrix, crashed)
    /\ UNCHANGED decomposition

Initialize ==
    /\ Alive
    /\ \E nonZeroEntries \in 0 .. (MaxEntries + 1), allocated \in BOOLEAN :
           Ends("initialize", initialize(ssm, nonZeroEntries, allocated))

InitializeEigen ==
    /\ Alive
    /\ \E eigenSparseMatrix \in EigenMatrices, allocated \in BOOLEAN :
           /\ ssm.currentSize + Len(eigenSparseMatrix.entries) <= MaxEntries + 1
           /\ Ends("initializeEigen", initializeEigen(ssm, eigenSparseMatrix, allocated))

AddNextValue ==
    /\ Alive
    /\ ssm.currentSize <= ssm.nonZeroEntryCount
    /\ \E row \in Indices, col \in Indices, value \in Values :
           Ends("addNextValue", addNextValue(ssm, row, col, value))

Finalize ==
    /\ Alive
    /\ Ends("finalize", finalize(ssm))

GetValue ==
    /\ Alive
    /\ \E row \in Indices, col \in Indices :
           LET out == getValue(ssm, row, col)
           IN  \E returned \in out.returned, crashed \in Crashes(out.faults) :
                   lastCall' = Call("getValue", out.thrown, out.faults, returned,
                                    NoMatrix, crashed)
    /\ UNCHANGED ssm
    /\ UNCHANGED decomposition

ToEigenSparseMatrix ==
    /\ Alive
    /\ Ends("toEigenSparseMatrix", toEigenSparseMatrix(ssm))

Copy ==
    /\ Alive
    /\ \E allocated \in BOOLEAN, garbage \in Garbage :
           LET out == CopyConstructor(ssm, allocated, garbage)
           IN  \E crashed \in Crashes(out.faults) :
                   lastCall' = Call("CopyConstructor", out.thrown, out.faults,
                                    NotFound, out.m, crashed)
    /\ UNCHANGED ssm
    /\ UNCHANGED decomposition

NextMatrix ==
    \/ Initialize
    \/ InitializeEigen
    \/ AddNextValue
    \/ Finalize
    \/ GetValue
    \/ ToEigenSparseMatrix
    \/ Copy

SpecMatrix == InitMatrix /\ [][NextMatrix]_vars

----------------------------------------------------------------------------
(* Properties.                                                             *)

\* The positions at which the partition exists.
HasPartition == pc \in {"partitioned", "refining", "extracted", "done"}

\* The positions at which the refinement loop has ended.
Refined == pc \in {"extracted", "done"}

\* Every state is in exactly one of the given blocks.
CoversExactlyOnce(bs) ==
    \A s \in States : Cardinality({ i \in DOMAIN bs : s \in bs[i] }) = 1

\* C1: in the initial partition, after every iteration of the refinement
\* loop and at extraction, every state is a member of exactly one block of
\* the partition, and after extraction of exactly one extracted block.
C1_PartitionInvariant ==
    /\ HasPartition =>
          CoversExactlyOnce([h \in DOMAIN partition.blocks |->
                                partition.blocks[h].states])
    /\ Refined => CoversExactlyOnce([i \in DOMAIN blocks |-> Members(blocks[i])])

\* A refinement iteration has split a block and the blocks were extracted.
C1_Witness ==
    /\ pc = "extracted"
    /\ splits > 0
    /\ Len(blocks) > 1

\* Any two states of block X place the same probability on every block.
Uniform(X, bs) ==
    \A s \in X : \A t \in X : \A Y \in bs : Prob(s, Y) = Prob(t, Y)

\* The live blocks that are not flagged absorbing, as state sets.
NonAbsorbingSets(part) ==
    { part.blocks[h].states : h \in { g \in DOMAIN part.blocks :
                                          ~ part.blocks[g].absorbing } }

RECURSIVE Partitions(_)
\* Every partition of the set S into non-empty blocks.
Partitions(S) ==
    IF S = {} THEN { {} }
    ELSE LET x == Min(S)
         IN  UNION { { {B} \cup P : P \in Partitions(S \ B) } :
                     B \in { C \cup {x} : C \in SUBSET (S \ {x}) } }

AllPartitions == Partitions(States)

\* Every block of Q lies inside a block of P.
Refines(Q, P) == \A X \in Q : \E Y \in P : X \subseteq Y

\* Q is stable: the states of each of its blocks agree on every block.
Stable(Q) == \A X \in Q : Uniform(X, Q)

\* Q is stable on the blocks outside the set A of states.
StableOutside(Q, A) == \A X \in Q : X \subseteq A \/ Uniform(X, Q)

\* The states of the blocks flagged absorbing.
AbsorbingStates(part) ==
    UNION { part.blocks[h].states :
              h \in { g \in DOMAIN part.blocks : part.blocks[g].absorbing } }

Rank == Len(splitterVector) + 2 * (NumStates - PartitionSize(partition))

\* C4: the splitter loop of performPartitionRefinement ends: every iteration
\* strictly lowers a measure that is never negative (it removes one pending
\* splitter and adds pending splitters only for blocks it splits), and as
\* long as splitters are pending one of them can be selected.
C4_Termination ==
    [][ /\ pc = "refining" => /\ Rank >= 0
                              /\ \/ LoopEnds(splitterVector)
                                 \/ \E i \in 1 .. Len(splitterVector) :
                                        CanBeBack(partition, splitterVector, i)
        /\ (pc = "refining" /\ pc' = "refining") => (Rank' < Rank /\ Rank' >= 0)
      ]_vars

\* The loop has run for at least three iterations, one of which split a
\* block, and has ended.
C4_Witness ==
    /\ pc = "refining"
    /\ LoopEnds(splitterVector)
    /\ splits > 0
    /\ partition.nextId > 3

RECURSIVE RunSmallestFirst(_, _)
\* The partition the loop leaves when it always selects the first of the
\* smallest pending blocks.
RunSmallestFirst(part, vec) ==
    IF LoopEnds(vec) THEN part
    ELSE LET i == Min({ j \in 1 .. Len(vec) : CanBeBack(part, vec, j) })
             r == LoopBody(part, vec, i, 0)
         IN  RunSmallestFirst(r.partition, r.splitterVector)

SmallestFirstResult ==
    RunSmallestFirst(MarkAllSplitters(InitialPartition),
                     AllBlocksAsSplitters(InitialPartition))

\* C7: the refinement loop run again, with every block re-marked as a
\* splitter, on the partition of a completed refinement performs no split
\* and leaves the partition unchanged.
C7_Idempotence ==
    pc = "rerefining" =>
        /\ splits = 0
        /\ BlockSets(partition) = initialPartition

\* The second run of the loop has ended on a partition that the first run
\* had split and that holds a block of two states.
C7_Witness ==
    /\ pc = "rerefining"
    /\ LoopEnds(splitterVector)
    /\ partition.nextId > PartitionSize(partition)
    /\ \E X \in NonAbsorbingSets(partition) : Cardinality(X) > 1

\* C8: whatever the order in which the pending splitters are selected, the
\* loop leaves the same partition, as a set of state sets, as the
\* smallest-block-first rule does.
C8_OrderIndependence ==
    pc = "extracted" =>
        BlockSets(partition) = BlockSets(SmallestFirstResult)

\* The loop has ended after splitting blocks in another order than the
\* smallest-first run does: the same state sets lie under other handles.
C8_Witness ==
    /\ pc = "extracted"
    /\ splits > 1
    /\ partition.blocks # SmallestFirstResult.blocks

----------------------------------------------------------------------------
(* Reachability values, as the model checker computes them on a DTMC given *)
(* as a matrix M of halves, M[s][t] in 0..2, over the index set DOMAIN M.  *)

RECURSIVE ReachBackward(_, _, _)
\* The states that reach T with positive probability along states of Through.
ReachBackward(M, T, Through) ==
    LET more == { s \in Through \ T : \E t \in T : M[s][t] > 0 }
    IN  IF more = {} THEN T ELSE ReachBackward(M, T \cup more, Through)

ProbZero(M, psi) == DOMAIN M \ ReachBackward(M, psi, DOMAIN M)
ProbOne(M, psi) ==
    DOMAIN M \ ReachBackward(M, ProbZero(M, psi), DOMAIN M \ psi)

RECURSIVE SumInto(_, _, _)
\* The halves of probability that state s places on the set T.
SumInto(M, s, T) ==
    IF T = {} THEN 0
    ELSE LET t == Min(T) IN M[s][t] + SumInto(M, s, T \ {t})

\* The square matrix A without its first row and its j-th column.
Minor(A, j) ==
    [r \in 1 .. (Len(A) - 1) |->
        [c \in 1 .. (Len(A) - 1) |-> A[r + 1][IF c < j THEN c ELSE c + 1]]]

RECURSIVE Det(_), DetFrom(_, _)
\* The determinant, expanded along the first row from column j on.
DetFrom(A, j) ==
    IF j > Len(A) THEN 0
    ELSE (IF j % 2 = 1 THEN 1 ELSE -1) * A[1][j] * Det(Minor(A, j))
             + DetFrom(A, j + 1)

Det(A) == IF Len(A) = 0 THEN 1 ELSE DetFrom(A, 1)

\* The probability of every state to reach a psi state, as a pair
\* << numerator, denominator >>: 0 and 1 on the states found by the graph
\* analysis, and on the others the solution of
\*     2 * x[s] - SUM over t (M[s][t] * x[t]) = SumInto(M, s, one)
\* by Cramer's rule.
ReachValues(M, psi) ==
    LET zero == ProbZero(M, psi)
        one == ProbOne(M, psi)
        maybe == SortedSeq(DOMAIN M \ (zero \cup one))
        k == Len(maybe)
        A == [r \in 1 .. k |-> [c \in 1 .. k |->
                 (IF r = c THEN 2 ELSE 0) - M[maybe[r]][maybe[c]]]]
        b == [r \in 1 .. k |-> SumInto(M, maybe[r], one)]
        WithColumn(i) == [r \in 1 .. k |-> [c \in 1 .. k |->
                             IF c = i THEN b[r] ELSE A[r][c]]]
        d == Det(A)
        Index(s) == CHOOSE i \in 1 .. k : maybe[i] = s
    IN  [s \in DOMAIN M |->
            IF s \in one THEN << 1, 1 >>
            ELSE IF s \in zero THEN << 0, 1 >>
            ELSE << Det(WithColumn(Index(s))), d >>]

SameValue(v, w) == v[2] # 0 /\ w[2] # 0 /\ v[1] * w[2] = w[1] * v[2]

\* The model's transition matrix, in halves.
OriginalMatrix == [s \in States |-> [t \in States |-> Prob(s, {t})]]

\* C5: when the Options were configured from the formula "eventually a",
\* every state of the model reaches an "a" state with the same probability
\* as the quotient state of its block reaches an "a" state of the quotient.
C5_Soundness ==
    (pc = "done" /\ options.measureDrivenInitialPartition /\ quotient.built) =>
        LET original == ReachValues(OriginalMatrix, ModelStates("a"))
            reduced == ReachValues(quotient.matrix, quotient.labeling["a"])
        IN  \A i \in 1 .. Len(blocks) : \A s \in Members(blocks[i]) :
                SameValue(original[s], reduced[i])

\* A decomposition configured from "eventually a" has merged two states
\* that reach "a" with a probability strictly between 0 and 1.
C5_Witness ==
    /\ pc = "done"
    /\ options.measureDrivenInitialPartition /\ quotient.built
    /\ LET original == ReachValues(OriginalMatrix, ModelStates("a"))
       IN  \E i \in 1 .. Len(blocks) :
              /\ Len(blocks[i]) > 1
              /\ \E s \in Members(blocks[i]) : /\ 0 < original[s][1]
                                      /\ original[s][1] < original[s][2]

\* Two states of one block of the partition have different state rewards.
MixesRewards(part) ==
    \E X \in BlockSets(part) : \E s \in X : \E t \in X :
        model.stateRewards[s] # model.stateRewards[t]

\* C6: if keepRewards is set and the model has a reward model, then in the
\* initial partition and in every later partition of the refinement loop no
\* block holds two states with different state rewards.
C6_RewardPreservingSplit ==
    (HasPartition /\ options.keepRewards /\ HasRewardModel)
        => ~ MixesRewards(partition)

\* Rewards are kept, the reward split has separated states that the labels
\* and measures leave together, and the refinement has split a block again.
C6_Witness ==
    /\ pc = "refining"
    /\ options.keepRewards /\ HasRewardModel
    /\ splits > 0
    /\ \E X \in BlockSets(partition) : Cardinality(X) > 1
    /\ \E s \in States : \E t \in States :
          /\ model.stateRewards[s] # model.stateRewards[t]
          /\ (s \in ModelStates("a")) = (t \in ModelStates("a"))

C10_ConstructorRejects ==
    pc # "new" =>
        /\ (options.type = "Weak" /\ options.bounded) => pc = "rejected"
        /\ (options.keepRewards /\ model.rewardModels > 1) => pc = "rejected"
        /\ (options.keepRewards /\ model.rewardKind = "Transition")
              => pc = "rejected"
        /\ (~ options.keepRewards /\ ~ (options.type = "Weak" /\ options.bounded))
              => pc # "rejected"
        /\ pc = "rejected" =>
              /\ error = "IllegalFunctionCallException"
              /\ partition.blocks = << >>
              /\ splitterVector = << >>

\* The constructor has rejected weak bisimulation with bounded = true on a
\* model whose rewards are not kept.
C10_Witness ==
    /\ pc = "rejected"
    /\ options.type = "Weak" /\ options.bounded
    /\ ~ options.keepRewards
    /\ model.rewardModels > 1

\* C11: when the measure-driven initial partition is requested and the phi
\* or the psi states are absent, computeBisimulationDecomposition fails
\* before a partition is built, and leaves no partial result: no partition,
\* no pending splitter, an empty block list and no quotient, so that
\* getQuotient still throws.
C11_MissingPhiPsiFails ==
    LET missing == /\ options.measureDrivenInitialPartition
                   /\ \/ options.phiStates = Absent
                      \/ options.psiStates = Absent
    IN  /\ HasPartition => ~ missing
        /\ pc = "failed" =>
              /\ missing
              /\ error = "InvalidOptionException"
              /\ partition.blocks = << >>
              /\ splitterVector = << >>
              /\ blocks = << >>
              /\ ~ quotient.built
              /\ lastGetQuotient # "Returned"

\* The decomposition has failed with the phi states set and the psi states
\* missing, and getQuotient has thrown afterwards.
C11_Witness ==
    /\ pc = "failed"
    /\ options.phiStates.present
    /\ ~ options.psiStates.present
    /\ lastGetQuotient = "IllegalFunctionCallException"

\* The kinds of the exceptions thrown for configuration errors: by the
\* constructor, and by computeBisimulationDecomposition for a measure-driven
\* partition without phi or psi states.
ConfigurationExceptions == { ConstructorException, InitialPartitionException }

\* C12 as stated: the exception getQuotient throws when no quotient was
\* built is of another kind than every exception thrown for a configuration
\* error.
C12_DistinctErrorKinds ==
    lastGetQuotient \notin {"NotCalled", "Returned"} =>
        lastGetQuotient \notin ConfigurationExceptions

\* C13: Options built from an empty formula list respect every label of the
\* model, keep rewards, request no measure-driven partition, and have
\* bounded = false and type = Strong.
C13_NoFormulas ==
    (pc = "new" /\ formulas = << >>) =>
        /\ options.respectedAtomicPropositions = Some(DOMAIN model.labeling)
        /\ options.keepRewards
        /\ ~ options.measureDrivenInitialPartition
        /\ options.phiStates = Absent /\ options.psiStates = Absent
        /\ ~ options.bounded
        /\ options.type = "Strong"

\* Options have been built from the empty list for a model with an "a" state.
C13_Witness ==
    /\ pc = "new"
    /\ formulas = << >>
    /\ model.labeling["a"] # {}
    /\ options # DefaultOptions

\* The labels a formula mentions in its operands.
MentionedLabels(f) == f.left.labels \cup f.right.labels

\* C14: Options built from exactly one formula have keepRewards set exactly
\* when the formula has a reward operator, bounded set exactly when it has a
\* bounded-until or a next subformula, and respect exactly the labels the
\* formula mentions.
C14_OneFormula ==
    (pc = "new" /\ Len(formulas) = 1) =>
        LET f == formulas[1]
        IN  /\ options.keepRewards <=> f.operator = "Reward"
            /\ options.bounded <=> f.kind \in {"BoundedUntil", "Next"}
            /\ options.respectedAtomicPropositions = Some(MentionedLabels(f))

\* Options have been built from a reward formula with a next operator over
\* a label.
C14_Witness ==
    /\ pc = "new"
    /\ Len(formulas) = 1
    /\ formulas[1].operator = "Reward"
    /\ formulas[1].kind = "Next"
    /\ MentionedLabels(formulas[1]) = {"a"}
    /\ options.keepRewards /\ options.bounded

\* C15: Options built from two or more formulas keep rewards exactly when
\* some formula has a reward operator, are bounded exactly when some formula
\* has a bounded-until or a next subformula, respect the union of the labels
\* the formulas mention, and request no measure-driven partition, with the
\* phi and psi states absent; in whatever order the formulas come.
C15_ManyFormulas ==
    (pc = "new" /\ Len(formulas) >= 2) =>
        LET I == 1 .. Len(formulas)
        IN  /\ options.keepRewards
                  <=> \E i \in I : formulas[i].operator = "Reward"
            /\ options.bounded
                  <=> \E i \in I : formulas[i].kind \in {"BoundedUntil", "Next"}
            /\ options.respectedAtomicPropositions
                  = Some(UNION { MentionedLabels(formulas[i]) : i \in I })
            /\ ~ options.measureDrivenInitialPartition
            /\ options.phiStates = Absent
            /\ options.psiStates = Absent

\* Options have been built from two formulas over different labels, of
\* which only the first has a reward operator and is step-bounded.
C15_Witness ==
    /\ pc = "new"
    /\ Len(formulas) = 2
    /\ formulas[1].operator = "Reward" /\ formulas[2].operator = "None"
    /\ formulas[1].kind = "BoundedUntil" /\ formulas[2].kind = "Eventually"
    /\ MentionedLabels(formulas[1]) # MentionedLabels(formulas[2])
    /\ options.keepRewards /\ options.bounded

\* The Until and Eventually formulas the measure-driven analysis accepts
\* (lines 123-134).
Interpretable(f) ==
    \/ f.kind = "Until" /\ f.left.propositional /\ f.right.propositional
    \/ f.kind = "Eventually" /\ f.right.propositional

\* C16: Options freshly built from one formula are measure-driven exactly
\* when the formula below its leading operator is an Until with two
\* propositional operands or an Eventually with a propositional operand, and
\* measure-driven options have both the phi and the psi states.
C16_MeasureDriven ==
    (pc = "new" /\ Len(formulas) = 1) =>
        /\ options.measureDrivenInitialPartition <=> Interpretable(formulas[1])
        /\ options.measureDrivenInitialPartition
              => options.phiStates.present /\ options.psiStates.present

\* Options have been built from a probability operator over an Until with
\* two propositional operands, and are measure-driven.
C16_Witness ==
    /\ pc = "new"
    /\ Len(formulas) = 1
    /\ formulas[1].operator = "Probability"
    /\ formulas[1].kind = "Until"
    /\ formulas[1].left.propositional /\ formulas[1].right.propositional
    /\ options.measureDrivenInitialPartition
    /\ options.phiStates.present /\ options.psiStates.present

\* The states of the model that satisfy a propositional operand.
Satisfying(operand) ==
    { s \in States : \A l \in operand.labels : s \in model.labeling[l] }

\* The model's transition matrix, in halves, with the states that satisfy
\* neither phi nor psi made absorbing: reaching psi in it is reaching psi
\* along phi states in the model.
UntilMatrix(phi, psi) ==
    [s \in States |-> [t \in States |->
        IF s \in phi \cup psi THEN Prob(s, {t})
        ELSE IF t = s THEN 2 ELSE 0]]

\* The states with probability exactly 0, and exactly 1, of satisfying the
\* Until or Eventually formula f.
FormulaProbability0(f) ==
    ProbZero(UntilMatrix(Satisfying(f.left), Satisfying(f.right)),
             Satisfying(f.right))
FormulaProbability1(f) ==
    ProbOne(UntilMatrix(Satisfying(f.left), Satisfying(f.right)),
            Satisfying(f.right))

\* C17 as stated: the phi and psi states stored in measure-driven Options
\* built from one formula are the states with probability exactly 0 and
\* exactly 1 of satisfying the formula.
C17_StoredProbability01 ==
    (pc = "new" /\ Len(formulas) = 1 /\ options.measureDrivenInitialPartition) =>
        /\ options.phiStates = Some(FormulaProbability0(formulas[1]))
        /\ options.psiStates = Some(FormulaProbability1(formulas[1]))

\* C17: the phi and psi states stored in measure-driven Options built from
\* one formula are the states that satisfy the left operand of the Until
\* (every state for an Eventually) and the states that satisfy its right
\* operand.  The states with probability exactly 0 and exactly 1 of
\* satisfying the formula are the first two blocks of the initial partition
\* the decomposition builds from them (the second block is the psi states
\* instead when rewards are kept or the property is bounded); the remaining
\* states form the third block.
C17_PhiPsiStates ==
    (Len(formulas) = 1 /\ options.measureDrivenInitialPartition) =>
        LET f == formulas[1]
            zero == FormulaProbability0(f)
            second == IF options.bounded \/ options.keepRewards
                      THEN Satisfying(f.right)
                      ELSE FormulaProbability1(f)
        IN  /\ pc \in {"new", "constructed", "partitioned"} =>
                  /\ options.phiStates = Some(Satisfying(f.left))
                  /\ options.psiStates = Some(Satisfying(f.right))
            /\ pc = "partitioned" =>
                  initialPartition
                      = { zero, second, States \ (zero \cup second) } \ { {} }

\* The initial partition built for an Until formula has three blocks, and
\* the states with probability 0 and 1 are neither the stored phi nor the
\* stored psi states.
C17_Witness ==
    /\ pc = "partitioned"
    /\ Len(formulas) = 1
    /\ options.measureDrivenInitialPartition
    /\ formulas[1].kind = "Until"
    /\ ~ options.keepRewards
    /\ Cardinality(initialPartition) = 3
    /\ options.phiStates.value # FormulaProbability0(formulas[1])
    /\ options.psiStates.value # FormulaProbability1(formulas[1])
    /\ FormulaProbability1(formulas[1]) \in initialPartition

\* The partition of the states by the labels of the given set they carry.
LabelPartition(labels) ==
    { { t \in States : \A l \in labels :
                          t \in model.labeling[l] <=> s \in model.labeling[l] } :
        s \in States }

\* C18: Options built from a single formula the measure-driven analysis
\* cannot interpret are not measure-driven, neither building them nor the
\* decomposition that uses them fails, and the decomposition starts from
\* the partition by the respected labels other than "init".
C18_GracefulDegradation ==
    (pc # "unconfigured" /\ Len(formulas) = 1 /\ ~ Interpretable(formulas[1])) =>
        /\ ~ options.measureDrivenInitialPartition
        /\ pc # "failed"
        /\ error \notin ConfigurationExceptions
        /\ pc = "partitioned" =>
              initialPartition
                  = LabelPartition(options.respectedAtomicPropositions.value
                                       \ {"init"})

\* A decomposition whose Options were built from a bounded-until formula
\* has started from the partition into the states with and without label
\* "a".
C18_Witness ==
    /\ pc = "partitioned"
    /\ Len(formulas) = 1
    /\ formulas[1].kind = "BoundedUntil"
    /\ formulas[1].left.propositional /\ formulas[1].right.propositional
    /\ ~ options.measureDrivenInitialPartition
    /\ error = "None"
    /\ initialPartition = { ModelStates("a"), States \ ModelStates("a") }
    /\ Cardinality(initialPartition) = 2

\* C19: Options built from one formula with a leading probability or
\* reward operator store the operator's optimality type when it has one;
\* otherwise Maximize for an upper bound ('<', '<=') and Minimize for a
\* lower bound ('>', '>='); and no optimality type when the operator has
\* neither, or when the Options are not measure-driven.
C19_OptimalityType ==
    (pc = "new" /\ Len(formulas) = 1
        /\ formulas[1].operator \in {"Probability", "Reward"}) =>
        LET f == formulas[1]
        IN  options.optimalityType =
              IF ~ options.measureDrivenInitialPartition THEN "None"
              ELSE IF f.optimalityType # "None" THEN f.optimalityType
              ELSE IF f.comparisonType \in {"Less", "LessEqual"} THEN "Maximize"
              ELSE IF f.comparisonType \in {"Greater", "GreaterEqual"}
                   THEN "Minimize"
              ELSE "None"

\* Measure-driven Options have been built from a probability operator with
\* an upper bound and no optimality type, and maximise.
C19_Witness ==
    /\ pc = "new"
    /\ Len(formulas) = 1
    /\ formulas[1].operator = "Probability"
    /\ formulas[1].optimalityType = "None"
    /\ formulas[1].comparisonType = "LessEqual"
    /\ options.measureDrivenInitialPartition
    /\ options.optimalityType = "Maximize"

\* C20: a decomposition constructed with Options whose respected atomic
\* propositions are absent respects all labels of the model, and one
\* constructed with Options that give them respects exactly the given
\* labels; the label-based initial partition is the partition by the
\* respected labels (other than "init").
C20_RespectedLabels ==
    /\ [][(pc = "new" /\ pc' = "constructed") =>
             options'.respectedAtomicPropositions
                 = IF options.respectedAtomicPropositions.present
                   THEN options.respectedAtomicPropositions
                   ELSE Some(DOMAIN model.labeling)]_vars
    /\ []((/\ pc = "partitioned"
           /\ ~ options.measureDrivenInitialPartition
           /\ ~ (options.keepRewards /\ HasRewardModel)) =>
             initialPartition
                 = LabelPartition(options.respectedAtomicPropositions.value
                                      \ {"init"}))

\* A decomposition constructed without respected atomic propositions
\* respects both labels of the model and has started from the partition
\* into the states with and without label "a".
C20_Witness ==
    /\ pc = "partitioned"
    /\ ~ options.measureDrivenInitialPartition
    /\ options.respectedAtomicPropositions = Some({"a", "init"})
    /\ initialPartition = { ModelStates("a"), States \ ModelStates("a") }
    /\ Cardinality(initialPartition) = 2

\* The block with id i - 1 is the absorbing block of the partition.
AbsorbingBlock(i) == partition.blocks[Handles(partition)[i]].absorbing

NumberOfTransitions(q) ==
    Cardinality({ e \in (1 .. Len(q.matrix)) \X (1 .. Len(q.matrix)) :
                    q.matrix[e[1]][e[2]] > 0 })

\* C22: the strong quotient of the die model under the default Options,
\* which respect every label, has 13 states and 20 transitions.
C22_DieDefault ==
    (/\ pc = "done" /\ quotient.built /\ model = DieModel
     /\ options.type = "Strong"
     /\ options.respectedAtomicPropositions = Some(ModelLabels)) =>
        /\ Len(quotient.matrix) = 13
        /\ NumberOfTransitions(quotient) = 20
        /\ quotient.type = "Dtmc"

\* The die model has been decomposed under the default Options and the
\* quotient of 13 states was built.
C22_Witness ==
    /\ pc = "done" /\ quotient.built /\ model = DieModel
    /\ options.type = "Strong"
    /\ ~ options.measureDrivenInitialPartition
    /\ options.respectedAtomicPropositions = Some(ModelLabels)
    /\ Len(blocks) = 13
    /\ Len(quotient.matrix) = 13

\* C23: the strong quotient of the die model has 5 states and 8 transitions
\* under Options that respect only the label "one", and 5 states and 8
\* transitions as well under the Options built from "eventually one".
C23_DieOne ==
    (/\ pc = "done" /\ quotient.built /\ model = DieModel
     /\ options.type = "Strong"
     /\ options.respectedAtomicPropositions = Some({"one"})) =>
        /\ Len(quotient.matrix) = 5
        /\ NumberOfTransitions(quotient) = 8
        /\ quotient.type = "Dtmc"

\* The die model has been decomposed under the Options built from the
\* formula "eventually one", which are measure-driven, and the quotient of
\* 5 states was built.
C23_Witness ==
    /\ pc = "done" /\ quotient.built /\ model = DieModel
    /\ options.type = "Strong"
    /\ options.measureDrivenInitialPartition
    /\ options.respectedAtomicPropositions = Some({"one"})
    /\ Len(quotient.matrix) = 5
    /\ NumberOfTransitions(quotient) = 8

\* C24: after extraction the block list has exactly one entry per block of
\* the partition, at the index of the block's id, the ids being exactly
\* 0 .. numBlocks - 1; every entry is non-empty and lists the states of its
\* block in ascending order, and the entries together hold every state
\* exactly once.
C24_ExtractedBlocks ==
    Refined =>
        /\ DOMAIN blocks = 1 .. PartitionSize(partition)
        /\ \A i \in DOMAIN blocks :
              /\ blocks[i] # << >>
              /\ \A k \in 1 .. (Len(blocks[i]) - 1) :
                    blocks[i][k] < blocks[i][k + 1]
              /\ Members(blocks[i])
                    = partition.blocks[Handles(partition)[i]].states
        /\ LET positions == UNION { { << i, k >> : k \in DOMAIN blocks[i] } :
                                      i \in DOMAIN blocks }
           IN  \A s \in States :
                   Cardinality({ e \in positions :
                                   blocks[e[1]][e[2]] = s }) = 1

\* The blocks were extracted from a partition of several blocks, one of
\* which holds several states.
C24_Witness ==
    /\ pc = "extracted"
    /\ splits > 0
    /\ Len(blocks) > 1
    /\ \E i \in DOMAIN blocks : Len(blocks[i]) > 1


-----------------------------------------------------------------------------
(* StaticSparseMatrix: life cycle, error handling and addressing.           *)

\* C25 as stated: the status becomes Initialized only by an initialize that
\* succeeds on an UnInitialized matrix, becomes ReadReady only by a finalize
\* that succeeds after exactly nonZeroEntryCount off-diagonal values were
\* added, and never moves back from ReadReady to Initialized or from
\* Initialized to UnInitialized.
C25_Lifecycle ==
    [][ /\ (ssm'.internalStatus = "Initialized" /\ ssm.internalStatus # "Initialized")
            => /\ ssm.internalStatus = "UnInitialized"
               /\ lastCall'.op \in {"initialize", "initializeEigen"}
               /\ lastCall'.thrown = "None"
        /\ (ssm'.internalStatus = "ReadReady" /\ ssm.internalStatus # "ReadReady")
            => /\ lastCall'.op = "finalize"
               /\ lastCall'.thrown = "None"
               /\ ssm.currentSize = ssm.nonZeroEntryCount
        /\ ~ (ssm.internalStatus = "ReadReady" /\ ssm'.internalStatus = "Initialized")
        /\ ~ (ssm.internalStatus = "Initialized" /\ ssm'.internalStatus = "UnInitialized")
      ]_vars

\* C26 as stated: finalize succeeds only on an Initialized matrix to which
\* exactly nonZeroEntryCount values were added; in every other status, or
\* with another number of added values, it throws invalid_state and the
\* status becomes Error.
C26_FinalizeChecked ==
    [][ lastCall'.op = "finalize"
            => IF ssm.internalStatus = "Initialized"
                  /\ ssm.currentSize = ssm.nonZeroEntryCount
               THEN lastCall'.thrown = "None"
               ELSE /\ lastCall'.thrown = "invalid_state"
                    /\ ssm'.internalStatus = "Error"
      ]_vars

\* C27 as stated, for a matrix whose arrays are allocated: the valid rows and
\* columns are 0 .. rowCount - 1; called with a row or a column outside that
\* range, the row count itself included, addNextValue throws out_of_range
\* and stores nothing, and getValue throws out_of_range and reads nothing.
C27_ZeroBasedRange ==
    \A row \in Indices, col \in Indices :
        (isInitialized(ssm) /\ (row >= ssm.rowCount \/ col >= ssm.rowCount))
            => /\ \A value \in Values :
                      LET out == addNextValue(ssm, row, col, value)
                      IN  /\ out.thrown = "out_of_range"
                          /\ out.faults = {}
                          /\ out.m.valueStorage = ssm.valueStorage
                          /\ out.m.diagonalStorage = ssm.diagonalStorage
                          /\ out.m.columnIndications = ssm.columnIndications
                          /\ out.m.rowIndications = ssm.rowIndications
                          /\ out.m.currentSize = ssm.currentSize
               /\ LET read == getValue(ssm, row, col)
                  IN  /\ read.thrown = "out_of_range"
                      /\ read.faults = {}

\* C28 as stated: unless memory runs out, copying a matrix that is not in the
\* Error status succeeds and yields a copy with the same status, row count,
\* entry count and stored values, and copying a matrix in the Error status
\* throws invalid_argument.
C28_CopyConstruction ==
    [][ (lastCall'.op = "CopyConstructor" /\ lastCall'.thrown # "bad_alloc")
            => IF ~ hasError(ssm)
               THEN /\ lastCall'.thrown = "None"
                    /\ lastCall'.copy = ssm
               ELSE lastCall'.thrown = "invalid_argument"
      ]_vars

-----------------------------------------------------------------------------
(* The initial partitions.                                                  *)

\* C29: in the label-based initial partition two states are in the same
\* block exactly if they carry the same respected labels other than "init"
\* and, when rewards are kept and the model has a reward model, have the
\* same state reward.
C29_LabelBasedPartition ==
    (pc = "partitioned" /\ ~ options.measureDrivenInitialPartition) =>
        \A s \in States, t \in States :
            (\E B \in initialPartition : s \in B /\ t \in B)
                <=> /\ \A l \in options.respectedAtomicPropositions.value \ {"init"} :
                           s \in ModelStates(l) <=> t \in ModelStates(l)
                    /\ (options.keepRewards /\ HasRewardModel)
                           => model.stateRewards[s] = model.stateRewards[t]

\* A label-based initial partition of several blocks, for Options that
\* respect "init", in which the initial state shares its block.
C29_Witness ==
    /\ pc = "partitioned"
    /\ ~ options.measureDrivenInitialPartition
    /\ "init" \in options.respectedAtomicPropositions.value
    /\ Cardinality(initialPartition) > 1
    /\ \E B \in initialPartition : ModelStates("init") \subseteq B /\ Cardinality(B) > 1

\* C30: the measure-driven initial partition consists, before the reward
\* split, of at most three blocks that hold every state exactly once: the
\* states with probability 0, a second set (the states with probability 1,
\* or the psi states when the property is bounded or rewards are kept), and
\* the remaining states.  The representative state is the lowest psi state,
\* and no block has one when there are no psi states.
C30_MeasureDrivenPartition ==
    (pc = "partitioned" /\ options.measureDrivenInitialPartition) =>
        LET phi == options.phiStates.value
            psi == options.psiStates.value
            zero == ProbZero(UntilMatrix(phi, psi), psi)
            second == IF options.bounded \/ options.keepRewards
                      THEN psi
                      ELSE ProbOne(UntilMatrix(phi, psi), psi)
            rest == States \ (zero \cup second)
            seeds == { zero, second, rest } \ { {} }
            representatives == { partition.blocks[h].representative :
                                   h \in DOMAIN partition.blocks } \ { NoState }
        IN  /\ zero \cap second = {}
            /\ \A s \in States, t \in States :
                   (\E B \in initialPartition : s \in B /\ t \in B)
                       <=> /\ \E X \in seeds : s \in X /\ t \in X
                           /\ (options.keepRewards /\ HasRewardModel)
                                  => model.stateRewards[s] = model.stateRewards[t]
            /\ ~ (options.keepRewards /\ HasRewardModel)
                   => initialPartition = seeds /\ Cardinality(initialPartition) <= 3
            /\ representatives = IF psi = {} THEN {} ELSE { Min(psi) }

\* A measure-driven initial partition of three blocks whose second block is
\* the psi states, which are not all the states with probability 1, and
\* whose representative is the lowest of several psi states.
C30_Witness ==
    /\ pc = "partitioned"
    /\ options.measureDrivenInitialPartition
    /\ options.bounded \/ options.keepRewards
    /\ ~ (options.keepRewards /\ HasRewardModel)
    /\ Cardinality(initialPartition) = 3
    /\ options.psiStates.value \in initialPartition
    /\ Cardinality(options.psiStates.value) > 1
    /\ \E h \in DOMAIN partition.blocks :
           partition.blocks[h].representative = Min(options.psiStates.value)

-----------------------------------------------------------------------------
(* The bookkeeping of the splitter loop.                                    *)

\* The blocks whose splitter flag is set.
Flagged(part) == { h \in DOMAIN part.blocks : part.blocks[h].splitter }

\* No handle is in the vector twice.
NoDuplicates(vec) == Cardinality(Members(vec)) = Len(vec)

\* C31: when the loop starts every block of the initial partition is flagged
\* as a splitter and pending; between iterations a block is pending exactly
\* if its splitter flag is set, and no block is pending twice; when the loop
\* has ended no block is flagged.
C31_SplitterBookkeeping ==
    /\ [][ (pc = "partitioned" /\ pc' = "refining")
               => /\ BlockSets(partition') = initialPartition
                  /\ Flagged(partition') = DOMAIN partition'.blocks
                  /\ Members(splitterVector') = DOMAIN partition'.blocks ]_vars
    /\ [] (HasPartition =>
               /\ Members(splitterVector) = Flagged(partition)
               /\ NoDuplicates(splitterVector)
               /\ Refined => Flagged(partition) = {})

\* Between two iterations, after a split, some blocks are pending and
\* flagged and another is neither.
C31_Witness ==
    /\ pc = "refining"
    /\ splits > 0
    /\ splitterVector # << >>
    /\ Flagged(partition) # {}
    /\ Flagged(partition) # DOMAIN partition.blocks

\* C32: an iteration of the loop removes exactly one block from the pending
\* collection: a pending block of the least number of states, whose flag is
\* cleared, and against whose states the blocks are split (under strong
\* bisimulation the states of every block that may be split then place the
\* same probability on it).  Every other pending block stays pending unless
\* the iteration has split it.
C32_SplitterSelection ==
    [][ (pc = "refining" /\ pc' = "refining")
            => \E h \in Members(splitterVector) :
                  /\ \A g \in Members(splitterVector) :
                         NumberOfStates(partition, h) <= NumberOfStates(partition, g)
                  /\ h \notin Members(splitterVector')
                  /\ h \in DOMAIN partition'.blocks
                         => ~ partition'.blocks[h].splitter
                  /\ \A g \in Members(splitterVector) \ {h} :
                         g \in DOMAIN partition'.blocks
                             => g \in Members(splitterVector')
                  /\ options.type = "Strong"
                         => \A x \in DOMAIN partition'.blocks :
                                possiblyNeedsRefinement(partition'.blocks[x])
                                    => \A s \in partition'.blocks[x].states,
                                          t \in partition'.blocks[x].states :
                                           Prob(s, partition.blocks[h].states)
                                               = Prob(t, partition.blocks[h].states)
      ]_vars

\* Between two iterations blocks of different sizes are pending, and the
\* last iteration has split a block.
C32_Witness ==
    /\ pc = "refining"
    /\ splits > 0
    /\ \E g \in Members(splitterVector), h \in Members(splitterVector) :
           NumberOfStates(partition, g) < NumberOfStates(partition, h)

\* The blocks an iteration has created, and those it has retired.
Created == DOMAIN partition'.blocks \ DOMAIN partition.blocks

Retired == DOMAIN partition.blocks \ DOMAIN partition'.blocks

\* C33: every sub-block of a block that an iteration of the loop has split
\* is flagged as a splitter and pending after the iteration, whether the
\* split block was pending, was the splitter of the iteration, or neither.
C33_NoWorkLost ==
    [][ (pc = "refining" /\ pc' = "refining")
            => \A b \in Retired :
                   \A h \in Created :
                       partition'.blocks[h].states \subseteq partition.blocks[b].states
                           => /\ partition'.blocks[h].splitter
                              /\ h \in Members(splitterVector') ]_vars

\* An iteration has split blocks and every block is pending afterwards: the
\* splitter of the iteration was split itself, and its sub-blocks and those
\* of the other split blocks are flagged and pending.
C33_Witness ==
    /\ pc = "refining"
    /\ splits > 0
    /\ PartitionSize(partition) > 2
    /\ Flagged(partition) = DOMAIN partition.blocks
    /\ Members(splitterVector) = DOMAIN partition.blocks

\* C34: every entry of the pending vector refers to a live block of the
\* current partition, so the splitter an iteration takes is live when it is
\* selected and read; the handle of a block retired by a split is never
\* given to another block, and never selected again.
C34_NoDanglingSplitter ==
    /\ [] (HasPartition =>
               /\ Members(splitterVector) \subseteq DOMAIN partition.blocks
               /\ \A h \in DOMAIN partition.blocks : h < partition.nextId)
    /\ [][ (pc = "refining" /\ pc' = "refining")
               => /\ \A h \in Created : h >= partition.nextId
                  /\ \A h \in Retired : h \notin Members(splitterVector') ]_vars

\* An iteration has retired a pending block: a handle below the next free
\* one is no longer live, and the vector holds live handles only.
C34_Witness ==
    /\ pc = "refining"
    /\ splits > 0
    /\ splitterVector # << >>
    /\ PartitionSize(partition) < partition.nextId

-----------------------------------------------------------------------------
(* The phases of computeBisimulationDecomposition.                          *)

\* C35: the initial partition is built first, then the refinement loop runs
\* until no splitter is pending, then the blocks are extracted, then the
\* quotient is built if and only if buildQuotient is set; the partition is
\* not changed once the extraction has begun.
C35_PhaseOrdering ==
    [][ /\ pc' = "partitioned" => pc = "constructed"
        /\ pc' = "refining" => pc \in {"partitioned", "refining"}
        /\ pc' = "extracted" => pc = "refining" /\ splitterVector = << >>
        /\ pc' = "done" => pc \in {"extracted", "done"}
        /\ partition' # partition => pc' \in {"partitioned", "refining"}
        /\ blocks' # blocks => pc = "refining" /\ pc' = "extracted"
        /\ pc \in {"extracted", "done"}
               => partition' = partition /\ blocks' = blocks
        /\ quotient' # quotient
               => pc = "extracted" /\ pc' = "done" /\ options.buildQuotient
        /\ (pc = "extracted" /\ pc' = "done")
               => (quotient'.built <=> options.buildQuotient)
      ]_vars

\* A decomposition that split blocks, extracted them and returned without
\* building the quotient.
C35_Witness ==
    /\ pc = "done"
    /\ splits > 0
    /\ Len(blocks) > 1
    /\ ~ options.buildQuotient
    /\ ~ quotient.built

-----------------------------------------------------------------------------
(* StaticSparseMatrix: the Error status and the accesses to the arrays.     *)

\* C36: once the status of a StaticSparseMatrix is Error, no call of a
\* member function changes it.
C36_ErrorAbsorbing ==
    [][ hasError(ssm) => hasError(ssm') ]_vars

\* initialize(eigenSparseMatrix) ran to its end, where it sets the status
\* Initialized, on a matrix in the Error status, which is still in it.
C36_Witness ==
    /\ hasError(ssm)
    /\ lastCall.op = "initializeEigen"
    /\ lastCall.thrown = "None"

-----------------------------------------------------------------------------
(* The loop only refines.                                                   *)

\* The sub-blocks that took the place of a retired block.
SubBlocks(b) ==
    { h \in Created :
        partition'.blocks[h].states \subseteq partition.blocks[b].states }

\* C37: refinement is monotone.  An iteration of the loop replaces each
\* block it splits by two or more non-empty sub-blocks whose union is
\* exactly the replaced block and leaves the states of every other block
\* alone, so the partition after the iteration refines the one before it;
\* the number of blocks never decreases and never exceeds the number of
\* states.
C37_MonotoneRefinement ==
    /\ [][ (pc = "refining" /\ pc' = "refining")
               => /\ \A b \in Retired :
                         /\ Cardinality(SubBlocks(b)) >= 2
                         /\ \A h \in SubBlocks(b) :
                                partition'.blocks[h].states # {}
                         /\ UNION { partition'.blocks[h].states :
                                      h \in SubBlocks(b) }
                                = partition.blocks[b].states
                  /\ \A h \in Created : \E b \in Retired : h \in SubBlocks(b)
                  /\ \A h \in DOMAIN partition.blocks \ Retired :
                         partition'.blocks[h].states = partition.blocks[h].states
                  /\ \A h \in DOMAIN partition'.blocks :
                         \E b \in DOMAIN partition.blocks :
                             partition'.blocks[h].states
                                 \subseteq partition.blocks[b].states
                  /\ PartitionSize(partition') >= PartitionSize(partition) ]_vars
    /\ [] (HasPartition => PartitionSize(partition) <= Cardinality(States))

\* Iterations have split blocks down to single states: the partition has
\* as many blocks as the model has states, after more than one split.
C37_Witness ==
    /\ pc = "refining"
    /\ splits > 1
    /\ PartitionSize(partition) = Cardinality(States)
    /\ Cardinality(States) > 2

-----------------------------------------------------------------------------
(* The Options on exit from checkAndSetMeasureDrivenInitialPartition.       *)

-----------------------------------------------------------------------------
(* What a decomposition leaves alone.                                       *)

\* C39: constructing and running a decomposition leaves the inputs of the
\* caller unchanged.  No step changes the model or the Options object that
\* was passed in; the decomposition works on a copy of the Options that
\* agrees with the caller's object in every member, except that respected
\* atomic propositions the caller left out are defaulted in the copy alone.
C39_InputsUnchanged ==
    /\ [][ /\ model' = model
           /\ callerOptions' = callerOptions ]_vars
    /\ [] (pc \notin {"new", "rejected"} =>
               /\ options =
                      [callerOptions EXCEPT !.respectedAtomicPropositions =
                           options.respectedAtomicPropositions]
               /\ options.respectedAtomicPropositions.present
               /\ callerOptions.respectedAtomicPropositions.present
                      => options = callerOptions)

\* A decomposition has run to its end, with splits, on Options in which the
\* caller left the respected atomic propositions out: its copy has them,
\* the caller's object still does not.
C39_Witness ==
    /\ pc = "done"
    /\ splits > 0
    /\ ~ callerOptions.respectedAtomicPropositions.present
    /\ options.respectedAtomicPropositions.present

-----------------------------------------------------------------------------
(* StaticSparseMatrix: the accesses to the arrays.                          *)

\* C40: initialize, addNextValue, finalize and the copy constructor read
\* and write the arrays within their bounds only: rowIndications has
\* rowCount + 1 cells, diagonalStorage rowCount, valueStorage and
\* columnIndications nonZeroEntryCount each.
C40_MemorySafety ==
    lastCall.op \in {"initialize", "initializeEigen", "addNextValue",
                     "finalize", "CopyConstructor"}
        => "OutOfBounds" \notin lastCall.faults

====
